---- MODULE Spec2Model ----
(***************************************************************************)
(* TI-NERmerger: normalisation and merging of two token-tagged corpora.    *)
(*                                                                         *)
(* A text is a sequence of one-character strings ("\n" separates lines),   *)
(* so that str.strip, str.split, label[0] and label[2:] are modelled by    *)
(* what they do to the characters.  A call that raises a Python exception  *)
(* returns Raise; the caller then never writes the dataset file back.      *)
(***************************************************************************)
EXTENDS Integers, Sequences, FiniteSets, TLC

VARIABLES
    file1,      \* content of args.input_file_1
    file2,      \* content of args.input_file_2
    trace,      \* the calls made so far: [op, pre1, pre2, cfg]
    raised,     \* an exception escaped the last call (the run is over)
    report,     \* what the last stage printed to the operator
    arg,        \* argument record of the pure classifier under test
    ret,        \* value the classifier returned for arg ("unset" before)
    pc,         \* the step main is at ("none" outside a run of main)
    merged      \* content of args.merged_output_file ("unset" before)

vars == <<file1, file2, trace, raised, report, arg, ret, pc, merged>>

----------------------------------------------------------------------------
(* Bounds of the model.                                                    *)

MaxLinesConv == 3

MaxOpsConv == 3

MaxLinesRemap == 2

MaxRules == 2

MaxRulesStage == 3

----------------------------------------------------------------------------
(* Python string primitives on sequences of characters.                    *)

NL == "\n"

SP == " "

IsSpace(c) == c \in {" ", "\n", "\t"}

Ok(v) == [raised |-> FALSE, out |-> v]

Raise == [raised |-> TRUE, out |-> <<>>]

RECURSIVE LStrip(_)
LStrip(s) ==
    IF s # <<>> /\ IsSpace(Head(s)) THEN LStrip(Tail(s)) ELSE s

RECURSIVE RStrip(_)
RStrip(s) ==
    IF s # <<>> /\ IsSpace(s[Len(s)]) THEN RStrip(SubSeq(s, 1, Len(s) - 1)) ELSE s

\* str.strip()
Strip(s) == RStrip(LStrip(s))

\* index of the first occurrence of character sep in s, 0 when there is none
FirstIndex(s, sep) ==
    IF \E i \in 1..Len(s) : s[i] = sep
    THEN CHOOSE i \in 1..Len(s) : s[i] = sep /\ \A j \in 1..(i - 1) : s[j] # sep
    ELSE 0

\* str.split(sep) for a one-character separator: always at least one piece
RECURSIVE Split(_, _)
Split(s, sep) ==
    LET i == FirstIndex(s, sep)
    IN  IF i = 0 THEN <<s>>
        ELSE <<SubSeq(s, 1, i - 1)>> \o Split(SubSeq(s, i + 1, Len(s)), sep)

\* line.split(" ", 1): at most one cut, at the first space
Split1(line) ==
    LET i == FirstIndex(line, SP)
    IN  IF i = 0 THEN <<line>>
        ELSE <<SubSeq(line, 1, i - 1), SubSeq(line, i + 1, Len(line))>>

\* sep.join(pieces)
RECURSIVE Join(_, _)
Join(pieces, sep) ==
    IF pieces = <<>> THEN <<>>
    ELSE IF Len(pieces) = 1 THEN pieces[1]
    ELSE pieces[1] \o <<sep>> \o Join(Tail(pieces), sep)

\* annotated_text.strip().split('\n')
SplitLines(text) == Split(Strip(text), NL)

\* label[2:]
From2(label) == SubSeq(label, 3, Len(label))

\* f"{word} {label}"
Tok(word, label) == word \o <<SP>> \o label

\* f"{bio}-{entity}"
Lab(bio, entity) == <<bio, "-">> \o entity

----------------------------------------------------------------------------
(* nextLine as bound when the functions run: the module's second           *)
(* definition replaces the first one, and returns None (here <<"None">>)   *)
(* when no later line splits in two.                                       *)

None == <<"None">>

RECURSIVE nextLine(_, _)
nextLine(lines, i) ==
    IF i + 1 <= Len(lines)
    THEN IF Len(Split1(lines[i + 1])) = 2 THEN lines[i + 1]
         ELSE nextLine(lines, i + 1)
    ELSE None

----------------------------------------------------------------------------
(* TagFormatConverter.                                                     *)

\* one iteration of convert_to_bio's loop: the lines it appends
BioLine(line) ==
    LET parts == Split1(line)
    IN  IF Len(parts) = 2
        THEN LET word == parts[1]
                 label == Strip(parts[2])
             IN  IF label = <<>> THEN Raise          \* label[0]: IndexError
                 ELSE LET bio == label[1]
                          entity == From2(label)
                      IN  IF bio = "E" THEN Ok(<<Tok(word, Lab("I", entity))>>)
                          ELSE IF bio = "S" THEN Ok(<<Tok(word, Lab("B", entity))>>)
                          ELSE Ok(<<Tok(word, label)>>)
        ELSE Ok(<<line>>)

RECURSIVE BioLoop(_, _)
BioLoop(lines, i) ==
    IF i > Len(lines) THEN Ok(<<>>)
    ELSE LET r == BioLine(lines[i])
         IN  IF r.raised THEN Raise
             ELSE LET rest == BioLoop(lines, i + 1)
                  IN  IF rest.raised THEN Raise ELSE Ok(r.out \o rest.out)

convert_to_bio(text) ==
    LET r == BioLoop(SplitLines(text), 1)
    IN  IF r.raised THEN Raise ELSE Ok(Join(r.out, NL))

\* the test on the line after a B or I token: next_bio == 'I'
NextContinues(next_label, entity) == next_label[1] = "I"

\* the B and I branches of convert_to_bioes: keep the tag or make it final
BioesSpanTag(lines, i, word, bio, entity, final) ==
    LET next_line == nextLine(lines, i)
    IN  IF next_line = None THEN Raise       \* None.split: AttributeError
        ELSE LET next_label == Split1(next_line)[2]
             IN  IF next_label = <<>> THEN Raise     \* next_label[0]: IndexError
                 ELSE IF NextContinues(next_label, entity)
                      THEN Ok(<<Tok(word, Lab(bio, entity))>>)
                      ELSE Ok(<<Tok(word, Lab(final, entity))>>)

\* one iteration of convert_to_bioes's loop: the lines it appends
BioesLine(lines, i) ==
    LET line == lines[i]
        parts == Split1(line)
    IN  IF Len(parts) = 2
        THEN LET word == parts[1]
                 label == parts[2]
             IN  IF label = <<>> THEN Raise          \* label[0]: IndexError
                 ELSE LET bio == label[1]
                          entity == From2(label)
                      IN  IF bio = "O" THEN Ok(<<Tok(word, <<"O">>)>>)
                          ELSE IF bio = "B"
                               THEN BioesSpanTag(lines, i, word, "B", entity, "S")
                          ELSE IF bio = "I"
                               THEN BioesSpanTag(lines, i, word, "I", entity, "E")
                          ELSE Ok(<<>>)      \* no branch appends the line
        ELSE Ok(<<line>>)

RECURSIVE BioesLoop(_, _)
BioesLoop(lines, i) ==
    IF i > Len(lines) THEN Ok(<<>>)
    ELSE LET r == BioesLine(lines, i)
         IN  IF r.raised THEN Raise
             ELSE LET rest == BioesLoop(lines, i + 1)
                  IN  IF rest.raised THEN Raise ELSE Ok(r.out \o rest.out)

convert_to_bioes(text) ==
    LET r == BioesLoop(SplitLines(text), 1)
    IN  IF r.raised THEN Raise ELSE Ok(Join(r.out, NL))

\* detect_format: 'BIOES' when some label starts with E or S
RECURSIVE DetectLoop(_, _)
DetectLoop(lines, i) ==
    IF i > Len(lines) THEN Ok("BIO")
    ELSE LET parts == Split1(lines[i])
         IN  IF Len(parts) = 2
             THEN IF parts[2] = <<>> THEN Raise      \* label[0]: IndexError
                  ELSE IF parts[2][1] \in {"E", "S"} THEN Ok("BIOES")
                  ELSE DetectLoop(lines, i + 1)
             ELSE DetectLoop(lines, i + 1)

detect_format(text) == DetectLoop(SplitLines(text), 1)

----------------------------------------------------------------------------
(* Input documents.                                                        *)

W == <<"w">>

X == <<"X">>

Y == <<"Y">>

SeqsUpTo(S, n) == UNION {[1..k -> S] : k \in 0..n}

\* lines of the converters' inputs: blank, blank with a space, one field,
\* O, B/I/E/S of two types, and a line of three fields
LinesConv ==
    { <<>>, <<SP>>, W, Tok(W, <<"O">>),
      Tok(W, Lab("B", X)), Tok(W, Lab("I", X)),
      Tok(W, Lab("B", Y)), Tok(W, Lab("I", Y)),
      Tok(W, Lab("E", X)), Tok(W, Lab("S", X)),
      Tok(W, <<"x", SP, "y">>) }

TextsConv == {Join(ls, NL) : ls \in SeqsUpTo(LinesConv, MaxLinesConv)}

----------------------------------------------------------------------------
(* The converters applied to dataset 1, as main applies them: read the     *)
(* file, convert, write the result back.                                   *)

Call(op, cfg) == [op |-> op, pre1 |-> file1, pre2 |-> file2, cfg |-> cfg]

NoArg == [none |-> TRUE]

\* ret before any call has returned
Unset == <<"unset">>

\* file1 after a call that returned r (nothing is written when it raised)
Written(r, old) == IF r.raised THEN old ELSE r.out

InitConv ==
    /\ file1 \in TextsConv
    /\ file2 = <<>>
    /\ trace = <<>>
    /\ raised = FALSE
    /\ report = "none"
    /\ arg = NoArg
    /\ ret = Unset
    /\ pc = "none"
    /\ merged = Unset

ConvertToBio ==
    /\ ~raised
    /\ Len(trace) < MaxOpsConv
    /\ LET r == convert_to_bio(file1)
       IN  /\ file1' = Written(r, file1)
           /\ raised' = r.raised
    /\ trace' = Append(trace, Call("convert_to_bio", NoArg))
    /\ UNCHANGED <<file2, report, arg, ret, pc, merged>>

ConvertToBioes ==
    /\ ~raised
    /\ Len(trace) < MaxOpsConv
    /\ LET r == convert_to_bioes(file1)
       IN  /\ file1' = Written(r, file1)
           /\ raised' = r.raised
    /\ trace' = Append(trace, Call("convert_to_bioes", NoArg))
    /\ UNCHANGED <<file2, report, arg, ret, pc, merged>>

NextConv == ConvertToBio \/ ConvertToBioes

SpecConv == InitConv /\ [][NextConv]_vars

----------------------------------------------------------------------------
(* LabelRemapper.                                                          *)

\* a Python list that is None
NoList == <<None>>

\* truth value of a list: neither None nor empty
Truthy(list) == list # NoList /\ list # <<>>

\* x in list
InList(x, list) == list # NoList /\ \E k \in 1..Len(list) : list[k] = x

\* a mutation of ListIndex: the last position instead of the first
ListIndexLast(list, x) ==
    CHOOSE k \in 1..Len(list) : list[k] = x /\ \A j \in (k + 1)..Len(list) : list[j] # x

\* list.index(x), for x in list
ListIndex(list, x) ==
    CHOOSE k \in 1..Len(list) : list[k] = x /\ \A j \in 1..(k - 1) : list[j] # x

\* one iteration of perform_1to1_mapping's loop
OneTo1Line(line, source_labels, target_labels) ==
    LET parts == Split1(line)
    IN  IF Len(parts) = 2
        THEN LET word == parts[1]
                 label == parts[2]
             IN  IF label = <<>> THEN Raise          \* label[0]: IndexError
                 ELSE LET bio == label[1]
                          entity == From2(label)
                      IN  IF Truthy(source_labels) /\ InList(entity, source_labels)
                          THEN LET k == ListIndex(source_labels, entity)
                               IN  IF target_labels = NoList \/ k > Len(target_labels)
                                   THEN Raise        \* target_labels[k]
                                   ELSE Ok(<<Tok(word, Lab(bio, target_labels[k]))>>)
                          ELSE Ok(<<line>>)
        ELSE Ok(<<line>>)

RECURSIVE OneTo1Loop(_, _, _, _)
OneTo1Loop(lines, i, source_labels, target_labels) ==
    IF i > Len(lines) THEN Ok(<<>>)
    ELSE LET r == OneTo1Line(lines[i], source_labels, target_labels)
         IN  IF r.raised THEN Raise
             ELSE LET rest == OneTo1Loop(lines, i + 1, source_labels, target_labels)
                  IN  IF rest.raised THEN Raise ELSE Ok(r.out \o rest.out)

perform_1to1_mapping(dataset_content, source_labels, target_labels) ==
    LET r == OneTo1Loop(SplitLines(dataset_content), 1, source_labels, target_labels)
    IN  IF r.raised THEN Raise ELSE Ok(Join(r.out, NL))

\* a mutation of FirstGroup: the last group that holds the entity
RECURSIVE LastGroup(_, _, _)
LastGroup(entity, many_labels_sets, k) ==
    IF k > Len(many_labels_sets) THEN 0
    ELSE LET later == LastGroup(entity, many_labels_sets, k + 1)
         IN  IF later # 0 THEN later
             ELSE IF InList(entity, Split(many_labels_sets[k], ",")) THEN k
             ELSE 0

\* the inner loop of perform_many_to_1_mapping from position k on: the
\* position of the first set whose members hold the entity, 0 for none
RECURSIVE FirstGroup(_, _, _)
FirstGroup(entity, many_labels_sets, k) ==
    IF k > Len(many_labels_sets) THEN 0
    ELSE IF InList(entity, Split(many_labels_sets[k], ",")) THEN k
    ELSE FirstGroup(entity, many_labels_sets, k + 1)

\* one iteration of perform_many_to_1_mapping's outer loop
ManyTo1Line(line, many_labels_sets, target_labels) ==
    LET parts == Split1(line)
    IN  IF Len(parts) = 2
        THEN LET word == parts[1]
                 label == parts[2]
             IN  IF label = <<>> THEN Raise          \* label[0]: IndexError
                 ELSE LET bio == label[1]
                          entity == From2(label)
                          k == FirstGroup(entity, many_labels_sets, 1)
                      IN  IF k # 0
                          THEN LET t == ListIndex(many_labels_sets, many_labels_sets[k])
                               IN  IF target_labels = NoList \/ t > Len(target_labels)
                                   THEN Raise        \* target_labels[t]
                                   ELSE Ok(<<Tok(word, Lab(bio, target_labels[t]))>>)
                          ELSE Ok(<<line>>)
        ELSE Ok(<<line>>)

RECURSIVE ManyTo1Loop(_, _, _, _)
ManyTo1Loop(lines, i, many_labels_sets, target_labels) ==
    IF i > Len(lines) THEN Ok(<<>>)
    ELSE LET r == ManyTo1Line(lines[i], many_labels_sets, target_labels)
         IN  IF r.raised THEN Raise
             ELSE LET rest == ManyTo1Loop(lines, i + 1, many_labels_sets, target_labels)
                  IN  IF rest.raised THEN Raise ELSE Ok(r.out \o rest.out)

perform_many_to_1_mapping(dataset_content, many_labels_sets, target_labels) ==
    LET r == ManyTo1Loop(SplitLines(dataset_content), 1, many_labels_sets, target_labels)
    IN  IF r.raised THEN Raise ELSE Ok(Join(r.out, NL))

----------------------------------------------------------------------------
(* The remappers applied to dataset 1, once, under any rule lists.         *)

T == <<"T">>

NoType == <<>>

\* lines of the remappers' inputs: blank, one field, O, two types, and a
\* line of three fields whose last field is a type name
LinesRemap ==
    { <<>>, W, Tok(W, <<"O">>), Tok(W, Lab("B", X)), Tok(W, Lab("I", Y)),
      Tok(W, <<"x", SP>> \o X) }

TextsRemap == {Join(ls, NL) : ls \in SeqsUpTo(LinesRemap, MaxLinesRemap)}

\* rule lists of 1..MaxRules entries
ListsOf(S) == SeqsUpTo(S, MaxRules) \ {<<>>}

SourceLists == ListsOf({X, Y, NoType})

TargetLists == ListsOf({Y, T})

GroupLists == ListsOf({X \o <<",">> \o Y, Y, NoType})

InitRemap ==
    /\ file1 \in TextsRemap
    /\ file2 = <<>>
    /\ trace = <<>>
    /\ raised = FALSE
    /\ report = "none"
    /\ arg = NoArg
    /\ ret = Unset
    /\ pc = "none"
    /\ merged = Unset

Perform1to1 ==
    /\ trace = <<>>
    /\ \E source_labels \in SourceLists, target_labels \in TargetLists :
           /\ LET r == perform_1to1_mapping(file1, source_labels, target_labels)
              IN  /\ file1' = Written(r, file1)
                  /\ raised' = r.raised
           /\ trace' = Append(trace, Call("perform_1to1_mapping",
                                  [source |-> source_labels, target |-> target_labels]))
    /\ UNCHANGED <<file2, report, arg, ret, pc, merged>>

PerformManyTo1 ==
    /\ trace = <<>>
    /\ \E many_labels_sets \in GroupLists, target_labels \in TargetLists :
           /\ LET r == perform_many_to_1_mapping(file1, many_labels_sets, target_labels)
              IN  /\ file1' = Written(r, file1)
                  /\ raised' = r.raised
           /\ trace' = Append(trace, Call("perform_many_to_1_mapping",
                                  [source |-> many_labels_sets, target |-> target_labels]))
    /\ UNCHANGED <<file2, report, arg, ret, pc, merged>>

NextRemap == Perform1to1 \/ PerformManyTo1

SpecRemap == InitRemap /\ [][NextRemap]_vars

----------------------------------------------------------------------------
(* The one-to-one stage, oneTo1Mappings: the operator's answers, the test  *)
(* of the lists, and the rewrite of the two dataset files.                 *)

UpperCase ==
    << "A", "B", "C", "D", "E", "F", "G", "H", "I", "J", "K", "L", "M",
       "N", "O", "P", "Q", "R", "S", "T", "U", "V", "W", "X", "Y", "Z" >>

LowerCase ==
    << "a", "b", "c", "d", "e", "f", "g", "h", "i", "j", "k", "l", "m",
       "n", "o", "p", "q", "r", "s", "t", "u", "v", "w", "x", "y", "z" >>

LowerChar(c) ==
    IF \E k \in 1..26 : UpperCase[k] = c
    THEN LowerCase[CHOOSE k \in 1..26 : UpperCase[k] = c]
    ELSE c

\* str.lower()
Lower(s) == [k \in 1..Len(s) |-> LowerChar(s[k])]

NA == <<"n", "a">>

\* [label.strip() for label in labels.split(',')]
StripEach(pieces) == [k \in 1..Len(pieces) |-> Strip(pieces[k])]

\* prompt_user_for_labels, from the line the operator types
prompt_user_for_labels(typed) ==
    LET labels == Strip(typed)
    IN  IF Lower(labels) = NA THEN NoList ELSE StripEach(Split(labels, ","))

\* label is None or (isinstance(label, list) and all(l.lower() == 'na' ...))
IsNA(label) ==
    label = NoList \/ \A k \in 1..Len(label) : Lower(label[k]) = NA

\* a mutation of LengthsDiffer: only a longer source list is a mismatch
LengthsDifferSourceLonger(labels, targets) ==
    Truthy(labels) /\ Truthy(targets) /\ Len(labels) > Len(targets)

\* labels and targets and len(labels) != len(targets)
LengthsDiffer(labels, targets) ==
    Truthy(labels) /\ Truthy(targets) /\ Len(labels) # Len(targets)

Outcome(f1, f2, exc, said) ==
    [file1 |-> f1, file2 |-> f2, raised |-> exc, report |-> said]

\* the with-block of one dataset: rewrite the file when both lists are given
RemapFile(apply, content, labels, targets) ==
    IF apply /\ Truthy(labels) /\ Truthy(targets)
    THEN perform_1to1_mapping(content, labels, targets)
    ELSE Ok(content)

\* oneTo1Mappings after the prompts: l1, t1, l2, t2 are the four label lists
oneTo1Mappings(f1, f2, apply1, l1, t1, apply2, l2, t2) ==
    IF IsNA(l1) /\ IsNA(t1) /\ IsNA(l2) /\ IsNA(t2)
    THEN Outcome(f1, f2, FALSE, "No 1-to-1 mapping is required. Exiting.")
    ELSE IF LengthsDiffer(l1, t1) \/ LengthsDiffer(l2, t2)
    THEN Outcome(f1, f2, FALSE,
                 "Error: The number of labels and target labels should be the same.")
    ELSE LET r1 == RemapFile(apply1, f1, l1, t1)
         IN  IF r1.raised THEN Outcome(f1, f2, TRUE, "none")
             ELSE LET r2 == RemapFile(apply2, f2, l2, t2)
                  IN  IF r2.raised THEN Outcome(r1.out, f2, TRUE, "none")
                      ELSE Outcome(r1.out, r2.out, FALSE, "oneTo1Mappings completed.")

\* what the operator may type at a label prompt: 1..n labels, comma-joined
Typed(S, n) == {Join(ls, ",") : ls \in SeqsUpTo(S, n) \ {<<>>}}

TextsStage == { Join(<<Tok(W, Lab("B", X)), Tok(W, <<"O">>)>>, NL) }

InitStage ==
    /\ file1 \in TextsStage
    /\ file2 = Tok(W, Lab("I", X))
    /\ trace = <<>>
    /\ raised = FALSE
    /\ report = "none"
    /\ arg = NoArg
    /\ ret = Unset
    /\ pc = "none"
    /\ merged = Unset

\* the lists the prompts can yield for dataset 1 and for dataset 2
SourceAnswers1 == {prompt_user_for_labels(t) : t \in Typed({X, NA}, MaxRulesStage)}

TargetAnswers1 == {prompt_user_for_labels(t) : t \in Typed({T, <<"N", "A">>}, MaxRulesStage)}

SourceAnswers2 == {prompt_user_for_labels(t) : t \in Typed({X, NA}, MaxRules)}

TargetAnswers2 == {prompt_user_for_labels(t) : t \in Typed({T, <<"N", "A">>}, MaxRules)}

\* no prompt is made for a dataset the stage is not applied to
Asked(apply, answers) == IF apply THEN answers ELSE {NoList}

OneTo1Mappings ==
    /\ trace = <<>>
    /\ \E apply1, apply2 \in BOOLEAN :
       \E l1 \in Asked(apply1, SourceAnswers1), t1 \in Asked(apply1, TargetAnswers1) :
       \E l2 \in Asked(apply2, SourceAnswers2), t2 \in Asked(apply2, TargetAnswers2) :
           LET r == oneTo1Mappings(file1, file2, apply1, l1, t1, apply2, l2, t2)
           IN  /\ file1' = r.file1
               /\ file2' = r.file2
               /\ raised' = r.raised
               /\ report' = r.report
               /\ trace' = Append(trace, Call("oneTo1Mappings",
                              [apply1 |-> apply1, l1 |-> l1, t1 |-> t1,
                               apply2 |-> apply2, l2 |-> l2, t2 |-> t2]))
    /\ UNCHANGED <<arg, ret, pc, merged>>

NextStage == OneTo1Mappings

SpecStage == InitStage /\ [][NextStage]_vars

----------------------------------------------------------------------------
(* More string primitives: prefixes, suffixes, str.replace, str.upper.     *)

StartsWith(s, p) == Len(s) >= Len(p) /\ SubSeq(s, 1, Len(p)) = p

EndsWith(s, p) == Len(s) >= Len(p) /\ SubSeq(s, Len(s) - Len(p) + 1, Len(s)) = p

UpperChar(c) ==
    IF \E k \in 1..26 : LowerCase[k] = c
    THEN UpperCase[CHOOSE k \in 1..26 : LowerCase[k] = c]
    ELSE c

\* str.upper()
Upper(s) == [k \in 1..Len(s) |-> UpperChar(s[k])]

\* s.replace(old, new) for a non-empty old: every occurrence, left to right
RECURSIVE ReplaceAll(_, _, _)
ReplaceAll(s, old, new) ==
    IF s = <<>> THEN <<>>
    ELSE IF StartsWith(s, old)
         THEN new \o ReplaceAll(SubSeq(s, Len(old) + 1, Len(s)), old, new)
         ELSE <<Head(s)>> \o ReplaceAll(Tail(s), old, new)

\* s.replace('', new): new before every character and at the end
RECURSIVE Interleave(_, _)
Interleave(s, new) ==
    IF s = <<>> THEN new ELSE new \o <<Head(s)>> \o Interleave(Tail(s), new)

\* str.replace
Replace(s, old, new) ==
    IF old = <<>> THEN Interleave(s, new) ELSE ReplaceAll(s, old, new)

\* line.split() is non-empty: the line has a character that is no space
HasField(line) == \E k \in 1..Len(line) : ~IsSpace(line[k])

----------------------------------------------------------------------------
(* HeuristicClassifier: file names and hashes.                             *)

Digits == {"0", "1", "2", "3", "4", "5", "6", "7", "8", "9"}

Letters == {UpperCase[k] : k \in 1..26} \cup {LowerCase[k] : k \in 1..26}

\* \w
IsWordChar(c) == c \in Letters \/ c \in Digits \/ c = "_"

\* [a-fA-F0-9]
IsHexChar(c) == c \in Digits \/ c \in {"a", "b", "c", "d", "e", "f", "A", "B", "C", "D", "E", "F"}

\* re.sub(r'[^\w\s.]+', '', text)
Cleaned(text) == SelectSeq(text, LAMBDA c : IsWordChar(c) \/ IsSpace(c) \/ c = ".")

\* the alternatives of file_extension_pattern; the last one is empty
FileExtensions ==
    { <<"j", "p", "g">>, <<"g", "i", "f">>, <<"d", "o", "c">>, <<"p", "d", "f">>,
      <<"e", "x", "e">>, <<"d", "o", "c", "x">>, <<"s", "h">>, <<"z", "i", "p">>,
      <<"t", "a", "r">>, <<"m", "p", "3">>, <<"m", "p", "4">>, <<"t", "x", "t">>,
      <<"d", "a", "t">>, <<"b", "a", "s", "h">>, <<"d", "l", "l">>,
      <<"n", "e", "t">>, <<"j", "s", "o", "n">>, <<"d", "c", "m">>,
      <<"j", "s">>, <<"j", "a", "v", "a">>, <<"p", "y">>, <<"p", "h", "p">>,
      <<"h", "t", "m", "l">>, <<"c", "s", "s">>, <<"m", "o", "v">>,
      <<"w", "a", "v">>, <<"x", "s", "l">>, <<"e", "p", "s">>, <<"a", "v", "i">>,
      <<"p", "p", "t">>, <<"x", "l", "s", "x">>, <<"o", "d", "t">>,
      <<"m", "i", "d">>, <<"m", "p", "a">>, <<"w", "m", "a">>, <<"a", "i", "f">>,
      <<"r", "a", "r">>, <<"g", "z">>, <<"7", "z">>, <<"a", "r", "j">>,
      <<"p", "k", "g">>, <<"r", "p", "m">>, <<"w", "p", "l">>, <<"c", "s", "v">>,
      <<"x", "m", "l">>, <<"s", "q", "l">>, <<"p", "s">>, <<"j", "p", "s">>,
      <<"c", "e", "r">>, <<"p", "f", "x">>, <<"j", "s", "p">>, <<"x", "h", "t", "m", "l">>,
      <<"r", "s", "s">>, <<"p", "p", "t", "x">>, <<"p", "n", "g">>,
      <<"j", "p", "e", "g">>, <<"m", "d">>, <<"b", "a", "k">>, <<>> }

\* isFile: '^.*\.(<extension>)$' matched without regard to case.  The
\* lookahead for the excluded domains stands after '$', where no character
\* is left for it to find, so it never rejects.
isFile(text) ==
    LET c == Lower(Cleaned(text))
    IN  IF \E ext \in FileExtensions : EndsWith(c, <<".">> \o ext)
        THEN <<"F", "I", "L", "E">>
        ELSE None

\* the lengths of the alternatives of hash_pattern
HashLengths == {32, 40, 64, 128}

\* \b before position p of s (p = Len(s) + 1: at the end)
IsBoundary(s, p) ==
    LET before == p > 1 /\ IsWordChar(s[p - 1])
        after == p <= Len(s) /\ IsWordChar(s[p])
    IN  before # after

\* isHash: the text itself when the cleaned text holds, between two word
\* boundaries, a run of 32, 40, 64 or 128 hexadecimal characters
isHash(text) ==
    LET c == Cleaned(text)
    IN  IF \E p \in 1..Len(c) : \E n \in HashLengths :
               /\ p + n - 1 <= Len(c)
               /\ IsBoundary(c, p)
               /\ IsBoundary(c, p + n)
               /\ \A k \in p..(p + n - 1) : IsHexChar(c[k])
        THEN text
        ELSE None

\* the chain on len(hash_value) in sampleFile
HashName(hash_value) ==
    IF Len(hash_value) <= 32 THEN <<"M", "D", "5">>
    ELSE IF Len(hash_value) <= 40 THEN <<"S", "H", "A", "1">>
    ELSE IF Len(hash_value) <= 64 THEN <<"S", "H", "A", "2">>
    ELSE IF Len(hash_value) <= 128 THEN <<"S", "H", "A", "3">>
    ELSE <<"S", "H", "A", "3">>

sampleFile(entity, default_label) ==
    LET file_type == isFile(entity)
    IN  IF file_type # None THEN file_type
        ELSE LET hash_value == isHash(entity)
             IN  IF hash_value # None /\ hash_value # <<>>
                 THEN HashName(hash_value)
                 ELSE default_label

----------------------------------------------------------------------------
(* Content passes: classify_exploit and discover_encr.                     *)

MaxLinesContent == 3

ExploitLine(line, dataset_label, target_labels) ==
    LET parts == Split1(line)
    IN  IF Len(parts) = 2
        THEN LET word == parts[1]
                 label == parts[2]
             IN  IF Upper(From2(label)) = Upper(dataset_label)
                 THEN IF StartsWith(word, <<"C", "V", "E">>) \/ StartsWith(word, <<"(", "C", "V", "E">>)
                      THEN IF Len(target_labels) < 2 THEN Raise   \* target_labels[1]: IndexError
                           ELSE Ok(<<Tok(word, Replace(label, From2(label), target_labels[2]))>>)
                      ELSE Ok(<<Tok(word, Replace(label, From2(label), target_labels[1]))>>)
                 ELSE Ok(<<Tok(word, label)>>)
        ELSE Ok(<<line>>)

\* the loop of classify_exploit: a line without any field is appended nowhere
RECURSIVE ExploitLoop(_, _, _, _, _)
ExploitLoop(lines, i, dataset_label, target_labels, updated_dataset) ==
    IF i > Len(lines) THEN Ok(Join(updated_dataset, NL))
    ELSE IF HasField(lines[i])
         THEN LET r == ExploitLine(lines[i], dataset_label, target_labels)
              IN  IF r.raised THEN Raise
                  ELSE ExploitLoop(lines, i + 1, dataset_label, target_labels,
                                   updated_dataset \o r.out)
         ELSE ExploitLoop(lines, i + 1, dataset_label, target_labels, updated_dataset)

\* dataset_label and targetLabels are the operator's two answers
classify_exploit(text, dataset_label, targetLabels) ==
    LET target_labels == Split(targetLabels, ",")
    IN  IF (\A k \in 1..Len(target_labels) : Lower(target_labels[k]) = NA) \/ dataset_label = NA
        THEN Ok(text)
        ELSE ExploitLoop(SplitLines(text), 1, dataset_label, target_labels, <<>>)

\* the column ENCR_Algorithms of encryption_algorithms.csv
ENCR_Algorithms == { <<"A", "E", "S">>, <<"R", "S", "A">> }

get_encryption_by_name(name, default_label, new_label) ==
    IF \E a \in ENCR_Algorithms : Lower(a) = Lower(name) THEN new_label ELSE default_label

EncrLine(line, tag, new_label) ==
    LET parts == Split1(line)
        default_label == <<"O">>
    IN  IF Len(parts) = 2
        THEN LET word == parts[1]
                 label == parts[2]
             IN  IF StartsWith(label, <<"O">>)
                 THEN LET new_label2 == get_encryption_by_name(word, default_label, new_label)
                      IN  IF new_label2 # default_label
                          THEN Tok(word, Lab(tag, new_label2))
                          ELSE Tok(word, label)
                 ELSE line
        ELSE line

\* the loop of discover_encr: a line without any field is appended nowhere
RECURSIVE EncrLoop(_, _, _, _, _)
EncrLoop(lines, i, tag, new_label, updated_dataset) ==
    IF i > Len(lines) THEN Join(updated_dataset, NL)
    ELSE IF HasField(lines[i])
         THEN EncrLoop(lines, i + 1, tag, new_label,
                       Append(updated_dataset, EncrLine(lines[i], tag, new_label)))
         ELSE EncrLoop(lines, i + 1, tag, new_label, updated_dataset)

\* a mutation of discover_encr: the tag S under either scheme
discover_encrTagS(text, tagging, typed) ==
    LET new_label == Strip(typed)
        tag == "S"
    IN  IF Lower(new_label) = NA \/ Len(Split(new_label, ",")) > 1
        THEN Ok(text)
        ELSE Ok(EncrLoop(SplitLines(text), 1, tag, new_label, <<>>))

\* typed is the operator's answer, tagging the format_choice argument
discover_encr(text, tagging, typed) ==
    LET new_label == Strip(typed)
        tag == IF tagging = "BIO" THEN "B" ELSE "S"
    IN  IF Lower(new_label) = NA \/ Len(Split(new_label, ",")) > 1
        THEN Ok(text)
        ELSE Ok(EncrLoop(SplitLines(text), 1, tag, new_label, <<>>))

CVE == <<"C", "V", "E">>

AES == <<"a", "e", "s">>

\* lines of the content passes' inputs: blank, one field, O, a labeled
\* exploit identifier and name, an encryption algorithm, three fields
LinesContent ==
    { <<>>, W, Tok(W, <<"O">>), Tok(CVE, Lab("B", X)), Tok(W, Lab("I", X)),
      Tok(AES, <<"O">>), Tok(W, <<"x", SP>> \o X) }

TextsContent == {Join(ls, NL) : ls \in SeqsUpTo(LinesContent, MaxLinesContent)}

\* answers to "Enter the dataset exploit label"
DatasetLabels == { X, <<"x">>, NA, <<>> }

\* answers to "Enter the traget labels for the exploit name and ID"
ExploitTargets == { <<"T", ",", "U">>, <<"T">>, <<"N", "A", ",", "n", "a">> }

\* answers to "Enter the label for all discovered encryption entities"
EncrLabels == { <<"T">>, <<SP, "T", SP>>, <<"N", "A">>, <<"T", ",", "U">>, <<"O">> }

InitContent ==
    /\ file1 \in TextsContent
    /\ file2 = <<>>
    /\ trace = <<>>
    /\ raised = FALSE
    /\ report = "none"
    /\ arg = NoArg
    /\ ret = Unset
    /\ pc = "none"
    /\ merged = Unset

ClassifyExploit ==
    /\ trace = <<>>
    /\ \E dataset_label \in DatasetLabels, targetLabels \in ExploitTargets :
           /\ LET r == classify_exploit(file1, dataset_label, targetLabels)
              IN  /\ file1' = Written(r, file1)
                  /\ raised' = r.raised
           /\ trace' = Append(trace, Call("classify_exploit",
                                  [source |-> dataset_label, target |-> targetLabels]))
    /\ UNCHANGED <<file2, report, arg, ret, pc, merged>>

DiscoverEncr ==
    /\ trace = <<>>
    /\ \E tagging \in {"BIO", "BIOES"}, typed \in EncrLabels :
           /\ LET r == discover_encr(file1, tagging, typed)
              IN  /\ file1' = Written(r, file1)
                  /\ raised' = r.raised
           /\ trace' = Append(trace, Call("discover_encr",
                                  [tagging |-> tagging, typed |-> typed]))
    /\ UNCHANGED <<file2, report, arg, ret, pc, merged>>

NextContent == ClassifyExploit \/ DiscoverEncr

SpecContent == InitContent /\ [][NextContent]_vars

----------------------------------------------------------------------------
(* sampleFile on one entity.                                               *)

MaxHexRun == 130

HexCycle == <<"a", "F", "0", "9", "c", "E">>

\* a run of n hexadecimal characters
HexRun(n) == [k \in 1..n |-> HexCycle[(k % 6) + 1]]

\* what stands before and after the run in the token
Prefixes == { <<>>, <<"(">>, <<"\"">>, <<"x", ".">> }

Suffixes == { <<>>, <<")">>, <<"\"">>, <<",">>, <<".">>, <<"g">>, <<".", "e", "x", "e">> }

InitHash ==
    /\ file1 = <<>>
    /\ file2 = <<>>
    /\ trace = <<>>
    /\ raised = FALSE
    /\ report = "none"
    /\ \E n \in 0..MaxHexRun, pre \in Prefixes, post \in Suffixes :
           arg = [run |-> n, pre |-> pre, post |-> post,
                  entity |-> pre \o HexRun(n) \o post]
    /\ ret = Unset
    /\ pc = "none"
    /\ merged = Unset

SampleFile ==
    /\ ret = Unset
    /\ ret' = sampleFile(arg.entity, <<"O">>)
    /\ UNCHANGED <<file1, file2, trace, raised, report, arg, pc, merged>>

NextHash == SampleFile

SpecHash == InitHash /\ [][NextHash]_vars

----------------------------------------------------------------------------
(* isFile on one text.                                                     *)

\* the alternatives of exclude_domains_pattern
ExcludedDomains ==
    { <<"c", "o", "m">>, <<"n", "e", "t">>, <<"o", "r", "g">>,
      <<"g", "o", "v">>, <<"e", "d", "u">>, <<"f", "r">> }

\* what stands before the last dot of the text
Stems == { <<>>, <<"a">>, <<"A", ".", "b">>, <<"a", "(", "b">>, <<"e", "x", "e">>, <<"a", ".", "c", "o", "m">> }

\* the text from its last dot on: nothing, a bare dot, the excluded
\* domains, extensions in both cases, and a suffix that is neither
Endings ==
    {<<>>, <<".">>, <<".", "x">>, <<".", "e", "x", "e">>, <<".", "E", "x", "E">>,
     <<".", "p", "y">>, <<".", "7", "z">>, <<".", "C", "O", "M">>, <<".", "e", "x", "e", "s">>}
        \cup {<<".">> \o d : d \in ExcludedDomains}

\* punctuation after the text, which the cleaning removes
Trailers == { <<>>, <<",">>, <<")">> }

InitFile ==
    /\ file1 = <<>>
    /\ file2 = <<>>
    /\ trace = <<>>
    /\ raised = FALSE
    /\ report = "none"
    /\ \E stem \in Stems, ending \in Endings, trailer \in Trailers :
           arg = [text |-> stem \o ending \o trailer]
    /\ ret = Unset
    /\ pc = "none"
    /\ merged = Unset

IsFile ==
    /\ ret = Unset
    /\ ret' = isFile(arg.text)
    /\ UNCHANGED <<file1, file2, trace, raised, report, arg, pc, merged>>

NextFile == IsFile

SpecFile == InitFile /\ [][NextFile]_vars

----------------------------------------------------------------------------
(* discover_low_iocs.                                                      *)

MaxLinesIocs == 2

\* every character of s[i..j] is in the class
AllIn(s, i, j, class) == \A k \in i..j : s[k] \in class

\* re.search(r'\b(?:\d{1,3}\.){3}\d{1,3}\b', word)
HasIP(word) ==
    \E p \in 1..Len(word) : \E a \in 1..3, b \in 1..3, c \in 1..3, d \in 1..3 :
        LET p2 == p + a + 1
            p3 == p2 + b + 1
            p4 == p3 + c + 1
            e == p4 + d - 1
        IN  /\ e <= Len(word)
            /\ IsBoundary(word, p)
            /\ AllIn(word, p, p + a - 1, Digits) /\ word[p + a] = "."
            /\ AllIn(word, p2, p2 + b - 1, Digits) /\ word[p2 + b] = "."
            /\ AllIn(word, p3, p3 + c - 1, Digits) /\ word[p3 + c] = "."
            /\ AllIn(word, p4, e, Digits)
            /\ IsBoundary(word, e + 1)

\* [-a-zA-Z0-9._%+-]
LocalChars == Letters \cup Digits \cup {"-", ".", "_", "%", "+"}

\* [A-Za-z0-9.-]
HostChars == Letters \cup Digits \cup {".", "-"}

\* [A-Z|a-z]
TldChars == Letters \cup {"|"}

\* re.search(r'\b(?:[-a-zA-Z0-9._%+-]+@[A-Za-z0-9.-]+\.[A-Z|a-z]{2,})\b', word)
HasEmail(word) ==
    \E p \in 1..Len(word), q \in 1..Len(word), d \in 1..Len(word), e \in 1..Len(word) :
        /\ p < q /\ q + 1 < d /\ d + 2 <= e
        /\ IsBoundary(word, p)
        /\ AllIn(word, p, q - 1, LocalChars)
        /\ word[q] = "@"
        /\ AllIn(word, q + 1, d - 1, HostChars)
        /\ word[d] = "."
        /\ AllIn(word, d + 1, e, TldChars)
        /\ IsBoundary(word, e + 1)

\* scheme_chars of urllib.parse
SchemeChars == Letters \cup Digits \cup {"+", "-", "."}

\* index of the first of '/', '?', '#' in s from position start on, Len(s) + 1
\* when there is none
NetlocEnd(s, start) ==
    LET hits == {k \in start..Len(s) : s[k] \in {"/", "?", "#"}}
    IN  IF hits = {} THEN Len(s) + 1 ELSE CHOOSE k \in hits : \A j \in hits : k <= j

\* urlparse(word).netloc, for a word of printable ASCII characters without
\* square brackets: the scheme up to the first colon is cut off when it is
\* a letter followed by scheme characters, and the netloc is what follows
\* a leading '//' up to the first '/', '?' or '#'
Netloc(word) ==
    LET i == FirstIndex(word, ":")
        url == IF i > 1 /\ word[1] \in Letters /\ AllIn(word, 1, i - 1, SchemeChars)
               THEN SubSeq(word, i + 1, Len(word))
               ELSE word
    IN  IF StartsWith(url, <<"/", "/">>)
        THEN SubSeq(url, 3, NetlocEnd(url, 3) - 1)
        ELSE <<>>

common_protocols ==
    { <<"R", "D", "P">>, <<"S", "S", "H">>, <<"H", "T", "T", "P">>,
      <<"H", "T", "T", "P", "S">>, <<"T", "L", "S">>, <<"F", "T", "P">>,
      <<"S", "M", "T", "P">>, <<"P", "O", "P", "3">>, <<"S", "F", "T", "P">>,
      <<"I", "M", "A", "P">>, <<"S", "S", "L">>, <<"P", "O", "P">>,
      <<"U", "D", "P">>, <<"T", "C", "P">>, <<"I", "P", "V", "4">>,
      <<"I", "P", "V", "6">>, <<"O", "P", "E", "N", "V", "P", "N">>,
      <<"I", "P", "S", "E", "C">>, <<"K", "E", "B", "E", "R", "O", "S">>,
      <<"S", "N", "M", "P">>, <<"D", "T", "L", "S">>, <<"S", "A", "S", "E">>,
      <<"T", "E", "L", "N", "E", "T">> }

\* the O branch of discover_low_iocs: the label a word labeled O ends with;
\* labels is the list [IP, URL, FILE, DOM, EMAIL, PROT] of the answers
IocLabel(word, tag, labels) ==
    IF HasIP(word) THEN Lab(tag, labels.IP)
    ELSE IF HasEmail(word) THEN Lab(tag, labels.EMAIL)
    ELSE LET new_label == sampleFile(word, None)
         IN  IF new_label # None /\ new_label # <<>>
             THEN IF new_label = <<"F", "I", "L", "E">>
                  THEN Lab(tag, labels.FILE)
                  ELSE Lab(tag, new_label)
             ELSE IF Netloc(word) # <<>> THEN Lab(tag, labels.URL)
             ELSE IF (\E k \in 1..Len(word) : word[k] = ".") /\ ~EndsWith(word, <<".">>)
                  THEN Lab(tag, labels.DOM)
             ELSE IF Upper(word) \in common_protocols THEN Lab(tag, labels.PROT)
             ELSE <<"O">>

IocLine(line, tag, labels) ==
    LET parts == Split1(line)
    IN  IF Len(parts) = 2
        THEN LET word == parts[1]
                 label == parts[2]
             IN  IF label = <<"O">> /\ word # <<".">>
                 THEN Tok(word, IocLabel(word, tag, labels))
                 ELSE line
        ELSE line

\* answers are the operator's six answers, stripped
discover_low_iocs(annotated_text, tagging, answers) ==
    LET labels == [c \in DOMAIN answers |-> Strip(answers[c])]
        tag == IF tagging = "BIO" THEN "B" ELSE "S"
        lines == SplitLines(annotated_text)
    IN  IF \A c \in DOMAIN labels : Lower(labels[c]) = NA
        THEN annotated_text
        ELSE Join([k \in 1..Len(lines) |-> IocLine(lines[k], tag, labels)], NL)

\* words of the low-level indicator categories, and words of none
WordIP == <<"1", ".", "2", "3", ".", "4", ".", "5">>

WordEmail == <<"a", "@", "b", ".", "c", "d">>

WordURL == <<"h", "t", "t", "p", ":", "/", "/", "a">>

WordFile == <<"a", ".", "e", "x", "e">>

WordDom == <<"a", ".", "b">>

WordProt == <<"t", "c", "p">>

\* lines of the inputs: one O token of each category, an O token of none,
\* a labeled token, a sentence end, a blank line and a one-field line
LinesIocs ==
    {Tok(w, <<"O">>) : w \in {WordIP, WordEmail, WordURL, WordFile, WordDom, WordProt, W, <<".">>}}
        \cup {Tok(WordIP, Lab("B", X)), <<>>, W}

TextsIocs == {Join(ls, NL) : ls \in SeqsUpTo(LinesIocs, MaxLinesIocs)}

Categories == {"IP", "URL", "FILE", "DOM", "EMAIL", "PROT"}

\* the six answers: for each category a label or NA
AnswersIocs == [Categories -> {T, <<"N", "A">>}]

InitIocs ==
    /\ file1 \in TextsIocs
    /\ file2 = <<>>
    /\ trace = <<>>
    /\ raised = FALSE
    /\ report = "none"
    /\ arg = NoArg
    /\ ret = Unset
    /\ pc = "none"
    /\ merged = Unset

DiscoverLowIocs ==
    /\ trace = <<>>
    /\ \E tagging \in {"BIO", "BIOES"}, answers \in AnswersIocs :
           /\ file1' = discover_low_iocs(file1, tagging, answers)
           /\ trace' = Append(trace, Call("discover_low_iocs",
                                  [tagging |-> tagging, answers |-> answers]))
    /\ UNCHANGED <<file2, raised, report, arg, ret, pc, merged>>

NextIocs == DiscoverLowIocs

SpecIocs == InitIocs /\ [][NextIocs]_vars

----------------------------------------------------------------------------
(* Alias resolution (TI-NERmergerV2): normalize and resolve_entity.  The   *)
(* alias table is the sequence of its entries in insertion order, each     *)
(* [canonical, type, aliases]; the scorer fuzz.token_sort_ratio is a       *)
(* function of the library, given as score[<<query, alias>>].              *)

MaxEntries == 2

MaxCalls == 2

\* the default of the parameter fuzzy_threshold
fuzzy_threshold == 80

\* re.sub(r'[^a-z0-9]', '', text)
AlphaNum(text) ==
    SelectSeq(text, LAMBDA c : c \in Digits \/ \E k \in 1..26 : LowerCase[k] = c)

\* the alternatives of the suffix pattern of normalize
NameSuffixes ==
    { <<"r", "a", "t">>, <<"t", "r", "o", "j", "a", "n">>,
      <<"m", "a", "l", "w", "a", "r", "e">>, <<"t", "o", "o", "l">>,
      <<"g", "r", "o", "u", "p">>, <<"a", "p", "t">> }

\* re.sub(r'(rat|trojan|malware|tool|group|apt)$', '', text): no suffix is
\* the end of another one, so at most one of them matches at the end
DropSuffix(text) ==
    IF \E x \in NameSuffixes : EndsWith(text, x)
    THEN LET x == CHOOSE y \in NameSuffixes : EndsWith(text, y)
         IN  SubSeq(text, 1, Len(text) - Len(x))
    ELSE text

normalize(text) == DropSuffix(AlphaNum(Lower(text)))

\* flat_aliases: the pairs (alias, canonical) in table order
RECURSIVE FlatAliases(_)
FlatAliases(alias_table) ==
    IF alias_table = <<>> THEN <<>>
    ELSE LET info == Head(alias_table)
         IN  [k \in 1..Len(info.aliases) |->
                  [alias |-> info.aliases[k], canonical |-> info.canonical, type |-> info.type]]
             \o FlatAliases(Tail(alias_table))

\* a mutation of FirstExact: the last pair whose alias normalizes to the query
LastExact(flat, norm_query) ==
    LET hits == {k \in 1..Len(flat) : normalize(Lower(flat[k].alias)) = norm_query}
    IN  IF hits = {} THEN 0 ELSE CHOOSE k \in hits : \A j \in hits : j <= k

\* the direct match: position of the first pair, in table order, whose
\* alias normalizes to the normalized query; 0 when there is none
FirstExact(flat, norm_query) ==
    LET hits == {k \in 1..Len(flat) : normalize(Lower(flat[k].alias)) = norm_query}
    IN  IF hits = {} THEN 0 ELSE CHOOSE k \in hits : \A j \in hits : k <= j

\* process.extractOne(query, choices, scorer): position of the first choice
\* of the highest score; 0 (None) when there is no choice
extractOne(query, flat, score) ==
    IF flat = <<>> THEN 0
    ELSE CHOOSE k \in 1..Len(flat) :
             /\ \A j \in 1..Len(flat) : score[<<query, flat[j].alias>>] <= score[<<query, flat[k].alias>>]
             /\ \A j \in 1..(k - 1) : score[<<query, flat[j].alias>>] < score[<<query, flat[k].alias>>]

\* a mutation of Accepts: the threshold itself is rejected
AcceptsAbove(score_value, threshold) == score_value > threshold

\* score >= fuzzy_threshold
Accepts(score_value, threshold) == score_value >= threshold

\* the None that resolve_entity returns; a match is a record with found
NoMatch == [found |-> FALSE]

\* the fuzzy fallback of resolve_entity; unpacking the None that extractOne
\* gives for an empty list raises TypeError
FuzzyStage(query, alias_table, score) ==
    LET flat == FlatAliases(alias_table)
        best == extractOne(Lower(query), flat, score)
    IN  IF best = 0 THEN Raise
        ELSE LET best_match == flat[best].alias
                 best_score == score[<<Lower(query), best_match>>]
                 owner == flat[CHOOSE k \in 1..Len(flat) :
                                   /\ flat[k].alias = best_match
                                   /\ \A j \in 1..(k - 1) : flat[j].alias # best_match]
             IN  IF Accepts(best_score, fuzzy_threshold)
                 THEN Ok([found |-> TRUE, canonical |-> owner.canonical, type |-> owner.type,
                          match |-> best_match, fuzzy_score |-> best_score])
                 ELSE Ok(NoMatch)

resolve_entity(query, alias_table, score) ==
    LET norm_query == normalize(Lower(query))
        flat == FlatAliases(alias_table)
        k == FirstExact(flat, norm_query)
    IN  IF k # 0
        THEN Ok([found |-> TRUE, canonical |-> flat[k].canonical, type |-> flat[k].type,
                 match |-> flat[k].alias])
        ELSE FuzzyStage(query, alias_table, score)

\* a mutation of AliasTableAfter: the query is remembered as an alias of the
\* entry it resolved to
AliasTableRemembering(query, alias_table, r) ==
    IF r.raised \/ ~r.out.found THEN alias_table
    ELSE [k \in 1..Len(alias_table) |->
             IF alias_table[k].canonical = r.out.canonical
             THEN [alias_table[k] EXCEPT !.aliases = <<Lower(query)>> \o @]
             ELSE alias_table[k]]

\* the alias table after resolve_entity(query) has returned r: the function
\* assigns neither the table nor any entry of it
AliasTableAfter(query, alias_table, r) == alias_table

\* aliases of the tables: a name, a spelling that normalizes to the same
\* string, and another name
AliasAB == <<"a", "b">>

AliasA_B == <<"a", "-", "b">>

AliasCD == <<"c", "d">>

AliasPool == {AliasAB, AliasA_B, AliasCD}

\* entries of the tables
EntryPool ==
    { [canonical |-> AliasAB, type |-> "tool", aliases |-> <<AliasAB>>],
      [canonical |-> AliasCD, type |-> "malware", aliases |-> <<AliasCD, AliasA_B>>],
      [canonical |-> AliasA_B, type |-> "intrusion-set", aliases |-> <<AliasA_B>>] }

\* tables of up to MaxEntries entries with distinct keys
AliasTables ==
    {t \in SeqsUpTo(EntryPool, MaxEntries) :
        \A i \in 1..Len(t), j \in 1..Len(t) : i # j => t[i].canonical # t[j].canonical}

\* queries: one that normalizes to "ab" and one that normalizes to no alias
Queries == { <<"A", "B">>, <<"Z", "z">> }

\* the scores the library may give: 100 for equal strings, and around the
\* threshold for the others
Scorers ==
    {f \in [{Lower(q) : q \in Queries} \X AliasPool -> {fuzzy_threshold - 1, fuzzy_threshold, 100}] :
        \A q \in Queries : Lower(q) \in AliasPool => f[<<Lower(q), Lower(q)>>] = 100}

InitResolve ==
    /\ file1 = <<>>
    /\ file2 = <<>>
    /\ trace = <<>>
    /\ raised = FALSE
    /\ report = "none"
    /\ \E alias_table \in AliasTables, score \in Scorers :
           arg = [alias_table |-> alias_table, score |-> score]
    /\ ret = Unset
    /\ pc = "none"
    /\ merged = Unset

ResolveEntity ==
    /\ ~raised
    /\ Len(trace) < MaxCalls
    /\ \E query \in Queries :
           LET r == resolve_entity(query, arg.alias_table, arg.score)
           IN  /\ raised' = r.raised
               /\ arg' = [arg EXCEPT !.alias_table = AliasTableAfter(query, arg.alias_table, r)]
               /\ trace' = Append(trace, [op |-> "resolve_entity", query |-> query,
                                          pre |-> arg.alias_table, result |-> r])
    /\ UNCHANGED <<file1, file2, report, ret, pc, merged>>

NextResolve == ResolveEntity

SpecResolve == InitResolve /\ [][NextResolve]_vars

----------------------------------------------------------------------------
(* Reference refinement (TI-NERmergerV2): get_type_by_name and             *)
(* software_label_update.                                                  *)

MaxLinesSoft == 2

\* a mutation of TargetIndex: tool and malware exchanged
TargetIndexSwapped(type) ==
    IF type = "tool" THEN 1 ELSE IF type = "malware" THEN 0 ELSE 2

\* the index into new_label that get_type_by_name takes for a category
TargetIndex(type) ==
    IF type = "tool" THEN 0 ELSE IF type = "malware" THEN 1 ELSE 2

\* the label get_type_by_name returns for the result of resolve_entity;
\* new_label[k] of a shorter list raises IndexError
TypeOfResult(result, default_label, new_label) ==
    IF result.raised THEN Raise
    ELSE IF result.out.found
         THEN IF TargetIndex(result.out.type) + 1 <= Len(new_label)
              THEN Ok(new_label[TargetIndex(result.out.type) + 1])
              ELSE Raise
         ELSE Ok(default_label)

\* V2's get_type_by_name
get_type_by_name(name, default_label, new_label, alias_table, score) ==
    TypeOfResult(resolve_entity(name, alias_table, score), default_label, new_label)

\* str.split(): the fields between runs of whitespace
RECURSIVE SplitWs(_)
SplitWs(s) ==
    LET t == LStrip(s)
        ends == {k \in 1..Len(t) : IsSpace(t[k])}
        e == CHOOSE k \in ends : \A j \in ends : k <= j
    IN  IF t = <<>> THEN <<>>
        ELSE IF ends = {} THEN <<t>>
        ELSE <<SubSeq(t, 1, e - 1)>> \o SplitWs(SubSeq(t, e, Len(t)))

transform_output(entity, software_type, entity_labels) ==
    LET words == SplitWs(entity)
        n == IF Len(words) <= Len(entity_labels) THEN Len(words) ELSE Len(entity_labels)
    IN  Join([k \in 1..n |-> Tok(words[k], Lab(entity_labels[k], software_type))], NL)

\* the while loop that collects the I and E tokens after a B token: i goes
\* up by one each time, and nextLine looks for the next line that splits in
\* two from there
RECURSIVE SpanLoop(_, _, _, _, _)
SpanLoop(lines, i, dataset_label, entity, entity_labels) ==
    LET next_line == nextLine(lines, i)
    IN  IF next_line = None THEN Ok([entity |-> entity, labels |-> entity_labels])
        ELSE LET next_word == Split1(next_line)[1]
                 next_label == Split1(next_line)[2]
             IN  IF next_label = <<>> THEN Raise     \* next_label[0]: IndexError
                 ELSE IF next_label[1] \in {"I", "E"} /\ From2(next_label) = dataset_label
                      THEN SpanLoop(lines, i + 1, dataset_label,
                                    entity \o <<SP>> \o next_word,
                                    Append(entity_labels, next_label[1]))
                      ELSE Ok([entity |-> entity, labels |-> entity_labels])

\* the S branch: the token with the label t that get_type_by_name gave
SingleOut(word, t) ==
    IF t.raised THEN Raise ELSE Ok(<<Tok(word, Lab("S", t.out))>>)

\* the B branch after the span was collected: transform_output of the
\* entity with the label t that get_type_by_name gave
SpanOut(span, t) ==
    IF t.raised THEN Raise
    ELSE Ok(<<transform_output(span.out.entity, t.out, span.out.labels)>>)

\* the B branch: span is what the while loop collected
SpanBranch(span, default_label, new_label, alias_table, score) ==
    IF span.raised THEN Raise
    ELSE SpanOut(span, get_type_by_name(span.out.entity, default_label, new_label,
                                        alias_table, score))

\* one iteration of the inner loop: the elements it appends to temp_dataset
SoftwareLine(lines, i, dataset_label, new_label, default_label, alias_table, score) ==
    LET line == lines[i]
        parts == Split1(line)
    IN  IF ~HasField(line) THEN Ok(<<>>)
        ELSE IF Len(parts) # 2 THEN Ok(<<line>>)
        ELSE LET word == parts[1]
                 label == parts[2]
             IN  IF From2(label) # dataset_label THEN Ok(<<line>>)
                 ELSE IF label = <<>> THEN Raise     \* label[0]: IndexError
                 ELSE IF label[1] = "S"
                      THEN SingleOut(word, get_type_by_name(word, default_label, new_label,
                                                            alias_table, score))
                 ELSE IF label[1] = "B"
                      THEN SpanBranch(SpanLoop(lines, i, dataset_label, word, <<"B">>),
                                      default_label, new_label, alias_table, score)
                 ELSE Ok(<<>>)

RECURSIVE SoftwareLoop(_, _, _, _, _, _, _, _)
SoftwareLoop(lines, i, dataset_label, new_label, default_label, alias_table, score, temp_dataset) ==
    IF i > Len(lines) THEN Ok(temp_dataset)
    ELSE LET r == SoftwareLine(lines, i, dataset_label, new_label, default_label, alias_table, score)
         IN  IF r.raised THEN Raise
             ELSE SoftwareLoop(lines, i + 1, dataset_label, new_label, default_label,
                               alias_table, score, temp_dataset \o r.out)

\* the outer loop: one pass over the lines for each dataset label
RECURSIVE SoftwarePasses(_, _, _, _, _, _, _)
SoftwarePasses(lines, dataset_labels, k, new_label, default_label, alias_table, score) ==
    IF k > Len(dataset_labels) THEN Ok(Join(lines, NL))
    ELSE LET r == SoftwareLoop(lines, 1, dataset_labels[k], new_label, default_label,
                               alias_table, score, <<>>)
         IN  IF r.raised THEN Raise
             ELSE SoftwarePasses(r.out, dataset_labels, k + 1, new_label, default_label,
                                 alias_table, score)

\* typed_labels, typed_targets and typed_default are the three answers
software_label_update(text, alias_table, score, typed_labels, typed_targets, typed_default) ==
    LET dataset_labels == Split(Strip(typed_labels), ",")
    IN  IF \A k \in 1..Len(dataset_labels) : Lower(dataset_labels[k]) = NA
        THEN Ok(text)
        ELSE SoftwarePasses(SplitLines(text), dataset_labels, 1,
                            Split(Strip(typed_targets), ","), Strip(typed_default),
                            alias_table, score)

\* words of the texts: one that normalizes to "ab" and one that does not
WordAB == <<"A", "B">>

WordZz == <<"Z", "z">>

\* lines of the texts: single-token and two-token spans of the type X, an O
\* token and a blank line
LinesSoft ==
    { Tok(WordAB, Lab("S", X)), Tok(WordZz, Lab("S", X)), Tok(WordAB, Lab("B", X)),
      Tok(WordZz, Lab("I", X)), Tok(WordZz, <<"O">>), <<>> }

TextsSoft == {Join(ls, NL) : ls \in SeqsUpTo(LinesSoft, MaxLinesSoft)}

\* the entities software_label_update can ask for: up to MaxLinesSoft words
EntitiesSoft ==
    {Lower(Join(ws, SP)) : ws \in SeqsUpTo({WordAB, WordZz}, MaxLinesSoft) \ {<<>>}}

\* scorers: 100 for equal strings, and one score, below or at the
\* threshold, for all other pairs
ScorersSoft ==
    {[p \in EntitiesSoft \X AliasPool |-> IF p[1] = p[2] THEN 100 ELSE v] :
        v \in {fuzzy_threshold - 1, fuzzy_threshold}}

\* answers to the three prompts of software_label_update
AnswersLabels == { X, <<"N", "A">> }

AnswersTargets == { <<"T", ",", "M", ",", "G">>, <<"T">> }

AnswersDefault == { <<"D">> }

InitSoftware ==
    /\ file1 \in TextsSoft
    /\ file2 = <<>>
    /\ trace = <<>>
    /\ raised = FALSE
    /\ report = "none"
    /\ \E alias_table \in AliasTables, score \in ScorersSoft :
           arg = [alias_table |-> alias_table, score |-> score, loaded |-> TRUE]
    /\ ret = Unset
    /\ pc = "none"
    /\ merged = Unset

SoftwareLabelUpdate ==
    /\ ~raised
    /\ arg.loaded
    /\ \A c \in 1..Len(trace) : trace[c].op # "software_label_update"
    /\ \E labels \in AnswersLabels, targets \in AnswersTargets, default \in AnswersDefault :
           /\ LET r == software_label_update(file1, arg.alias_table, arg.score,
                                             labels, targets, default)
              IN  /\ file1' = Written(r, file1)
                  /\ raised' = r.raised
           /\ trace' = Append(trace, Call("software_label_update",
                                  [labels |-> labels, targets |-> targets, default |-> default]))
    /\ UNCHANGED <<file2, report, arg, ret, pc, merged>>

NextSoftware == SoftwareLabelUpdate

SpecSoftware == InitSoftware /\ [][NextSoftware]_vars

----------------------------------------------------------------------------
(* Reference data (TI-NERmergerV2): createTables, load_merged_alias_table  *)
(* and expand_alias_table_with_external_sources.  The environment is the   *)
(* network, the files on disk and their content.                           *)

MaxObjects == 2

\* list(set(aliases)): the distinct aliases, in the order in which the set
\* yields them; order lists all strings in that order
SetToList(aliases, order) ==
    SelectSeq(order, LAMBDA x : \E k \in 1..Len(aliases) : aliases[k] = x)

\* a mutation of WithCanonical: the canonical name is not appended
WithoutCanonical(normalized_aliases, canonical) == normalized_aliases

\* normalized_aliases.append(canonical)
WithCanonical(normalized_aliases, canonical) == Append(normalized_aliases, canonical)

\* position of the key in the table, 0 when it is no key
KeyIndex(alias_table, key) ==
    IF \E k \in 1..Len(alias_table) : alias_table[k].canonical = key
    THEN CHOOSE k \in 1..Len(alias_table) : alias_table[k].canonical = key
    ELSE 0

\* alias_table[key] = value: a new key goes to the end, an old one keeps its place
SetKey(alias_table, entry) ==
    LET k == KeyIndex(alias_table, entry.canonical)
    IN  IF k = 0 THEN Append(alias_table, entry)
        ELSE [alias_table EXCEPT ![k] = entry]

\* the types load_merged_alias_table keeps
object_types == {"malware", "tool", "intrusion-set"}

\* the loop over the objects of the STIX files, in file order; st is
\* [alias_table, seen_ids]
RECURSIVE LoadObjects(_, _, _)
LoadObjects(objects, st, order) ==
    IF objects = <<>> THEN st
    ELSE LET obj == Head(objects)
             canonical == Lower(obj.name)
             normalized_aliases == [k \in 1..Len(obj.aliases) |-> Lower(obj.aliases[k])]
         IN  IF obj.revoked \/ obj.id \in st.seen_ids \/ obj.type \notin object_types
             THEN LoadObjects(Tail(objects), st, order)
             ELSE LoadObjects(Tail(objects),
                      [alias_table |->
                           SetKey(st.alias_table,
                                  [canonical |-> canonical, type |-> obj.type,
                                   aliases |-> SetToList(WithCanonical(normalized_aliases,
                                                                       canonical), order)]),
                       seen_ids |-> st.seen_ids \cup {obj.id}],
                      order)

\* [a.strip().lower() for a in associated.split(',') if a.strip()]
Associated(associated) ==
    LET pieces == Split(associated, ",")
        kept == SelectSeq(pieces, LAMBDA a : Strip(a) # <<>>)
    IN  [k \in 1..Len(kept) |-> Lower(Strip(kept[k]))]

\* one loop of expand_alias_table_with_external_sources over the rows of a
\* page; types are the entry types the loop extends
RECURSIVE ExpandRows(_, _, _, _)
ExpandRows(alias_table, rows, types, order) ==
    IF rows = <<>> THEN alias_table
    ELSE LET row == Head(rows)
             name == Lower(row.Name)
             k == KeyIndex(alias_table, name)
         IN  IF k # 0 /\ alias_table[k].type \in types /\ row.associated # None
             THEN ExpandRows(
                      [alias_table EXCEPT ![k].aliases =
                           SetToList(@ \o Associated(row.associated), order)],
                      Tail(rows), types, order)
             ELSE ExpandRows(alias_table, Tail(rows), types, order)

\* requests.get with raise_for_status raises when the pages cannot be had
expand_alias_table_with_external_sources(alias_table, env) ==
    IF ~env.pages THEN Raise
    ELSE Ok(ExpandRows(ExpandRows(alias_table, env.software_rows, {"malware", "tool"}, env.order),
                       env.group_rows, {"intrusion-set"}, env.order))

\* the cache is returned as it is; without it every STIX file is opened,
\* and open raises FileNotFoundError for a file that is not there
load_merged_alias_table(env, on_disk) ==
    IF env.cache.exists THEN Ok(env.cache.table)
    ELSE IF ~on_disk THEN Raise
    ELSE expand_alias_table_with_external_sources(
             LoadObjects(env.stix, [alias_table |-> <<>>, seen_ids |-> {}], env.order).alias_table,
             env)

\* createTables: a failed download is caught and reported; the files are on
\* disk when they were there before or the download wrote them
createTables(env) == load_merged_alias_table(env, env.on_disk \/ env.download)

\* STIX objects of the files: a tool with aliases, a malware without, a
\* malware that shares the tool's lowercased name, an intrusion set, and a
\* revoked tool
StixAB == [type |-> "tool", id |-> "1", name |-> <<"A", "B">>,
           aliases |-> << <<"A", "B">>, <<"A", "-", "B">> >>, revoked |-> FALSE]

StixCd == [type |-> "malware", id |-> "2", name |-> <<"C", "d">>,
           aliases |-> <<>>, revoked |-> FALSE]

StixAb == [type |-> "malware", id |-> "3", name |-> <<"a", "b">>,
           aliases |-> << <<"c", "d">> >>, revoked |-> FALSE]

StixGh == [type |-> "intrusion-set", id |-> "4", name |-> <<"G", "h">>,
           aliases |-> << <<"G", "h">> >>, revoked |-> FALSE]

StixZz == [type |-> "tool", id |-> "5", name |-> <<"Z", "z">>,
           aliases |-> << <<"Z", "z">> >>, revoked |-> TRUE]

StixPool == {StixAB, StixCd, StixAb, StixGh, StixZz}

\* every alias a table of these objects and rows can hold
AliasUniverse ==
    << <<"a", "b">>, <<"a", "-", "b">>, <<"c", "d">>, <<"g", "h">>, <<"z", "z">>, <<"x", "y">> >>

Reverse(seq) == [k \in 1..Len(seq) |-> seq[Len(seq) + 1 - k]]

\* rows of the software page and of the groups page
SoftwareRows ==
    { <<>>, << [Name |-> <<"A", "B">>, associated |-> <<"A", "-", "B", ",", SP, "X", "y">>],
               [Name |-> <<"C", "d">>, associated |-> None] >> }

GroupRows == { << [Name |-> <<"G", "h">>, associated |-> <<"X", "y">>] >> }

\* the cache file of an earlier run
CachedTable ==
    LoadObjects(<<StixAB, StixCd>>, [alias_table |-> <<>>, seen_ids |-> {}],
                AliasUniverse).alias_table

Environments ==
    [ download : BOOLEAN, on_disk : BOOLEAN, pages : BOOLEAN,
      cache : {[exists |-> FALSE, table |-> <<>>], [exists |-> TRUE, table |-> CachedTable]},
      stix : SeqsUpTo(StixPool, MaxObjects),
      order : {AliasUniverse, Reverse(AliasUniverse)},
      software_rows : SoftwareRows, group_rows : GroupRows ]

\* one score, below the threshold, for all pairs of different strings
ScorerTables ==
    [p \in EntitiesSoft \X {AliasUniverse[k] : k \in 1..Len(AliasUniverse)} |->
        IF p[1] = p[2] THEN 100 ELSE fuzzy_threshold - 1]

InitTables ==
    /\ file1 = Join(<<Tok(WordAB, Lab("S", X)), Tok(WordZz, <<"O">>)>>, NL)
    /\ file2 = <<>>
    /\ trace = <<>>
    /\ raised = FALSE
    /\ report = "none"
    /\ \E env \in Environments :
           arg = [alias_table |-> <<>>, score |-> ScorerTables, loaded |-> FALSE, env |-> env]
    /\ ret = Unset
    /\ pc = "none"
    /\ merged = Unset

CreateTables ==
    /\ ~raised
    /\ ~arg.loaded
    /\ LET r == createTables(arg.env)
       IN  /\ raised' = r.raised
           /\ arg' = IF r.raised THEN arg
                     ELSE [arg EXCEPT !.alias_table = r.out, !.loaded = TRUE]
    /\ trace' = Append(trace, Call("createTables", NoArg))
    /\ UNCHANGED <<file1, file2, report, ret, pc, merged>>

NextTables == CreateTables \/ SoftwareLabelUpdate

SpecTables == InitTables /\ [][NextTables]_vars

----------------------------------------------------------------------------
(* Consistency correction: correct_mislabeling.                            *)

MaxLinesCorrect == 3

MaxOpsCorrect == 2

\* entity_labels = {}
NoLabels == [word \in {} |-> <<>>]

\* if word in entity_labels: label = entity_labels[word]
\* else: entity_labels[word] = label
Remember(entity_labels, word, label) ==
    IF word \in DOMAIN entity_labels THEN entity_labels
    ELSE entity_labels @@ (word :> label)

\* the B- branch's test of the next line
NextStartsWithO(lines, i) ==
    LET next_line == nextLine(lines, i)
    IN  next_line # None /\ StartsWith(Split1(next_line)[2], <<"O">>)

\* the first loop: temp_lines and entity_labels after the lines from i on
RECURSIVE MemoLoop(_, _, _, _)
MemoLoop(lines, i, entity_labels, temp_lines) ==
    IF i > Len(lines) THEN [temp_lines |-> temp_lines, entity_labels |-> entity_labels]
    ELSE LET parts == Split1(lines[i])
             word == parts[1]
             label == parts[2]
             memoized == \/ StartsWith(label, <<"S", "-">>)
                         \/ StartsWith(label, <<"B", "-">>) /\ NextStartsWithO(lines, i)
         IN  IF Len(parts) = 2 /\ memoized
             THEN LET labels == Remember(entity_labels, word, label)
                  IN  MemoLoop(lines, i + 1, labels, Append(temp_lines, Tok(word, labels[word])))
             ELSE MemoLoop(lines, i + 1, entity_labels, Append(temp_lines, lines[i]))

\* the second loop: one line of corrected_lines
CorrectedLine(line, entity_labels) ==
    LET parts == Split1(line)
    IN  IF Len(parts) = 2 /\ parts[2] = <<"O">> /\ parts[1] \in DOMAIN entity_labels
        THEN Tok(parts[1], entity_labels[parts[1]])
        ELSE line

correct_mislabeling(text) ==
    LET lines == Split(Strip(text), NL)
        first == MemoLoop(lines, 1, NoLabels, <<>>)
    IN  Join([k \in 1..Len(first.temp_lines) |->
                 CorrectedLine(first.temp_lines[k], first.entity_labels)], NL)

V == <<"v">>

\* lines of the corrector's inputs: two surface forms with O, S, B and I
\* labels of two types, a label and an O that carry a trailing space, and a
\* line of one field
LinesCorrect ==
    { Tok(W, <<"O">>), Tok(W, Lab("S", X)), Tok(W, Lab("S", Y)),
      Tok(W, Lab("B", X)), Tok(W, Lab("B", Y)), Tok(W, Lab("B", X) \o <<SP>>),
      Tok(V, <<"O">>), Tok(V, <<"O", SP>>), Tok(V, Lab("S", Y)),
      Tok(V, Lab("B", Y)), Tok(V, Lab("I", X)), W }

TextsCorrect ==
    {Join(lines, NL) : lines \in SeqsUpTo(LinesCorrect, MaxLinesCorrect)}

InitCorrect ==
    /\ file1 \in TextsCorrect
    /\ file2 = <<>>
    /\ trace = <<>>
    /\ raised = FALSE
    /\ report = "none"
    /\ arg = NoArg
    /\ ret = Unset
    /\ pc = "none"
    /\ merged = Unset

\* fixingMislabeledIssue on dataset 1, run again on its own output
CorrectMislabeling ==
    /\ Len(trace) < MaxOpsCorrect
    /\ file1' = correct_mislabeling(file1)
    /\ trace' = Append(trace, Call("correct_mislabeling", NoArg))
    /\ UNCHANGED <<file2, raised, report, arg, ret, pc, merged>>

NextCorrect == CorrectMislabeling

SpecCorrect == InitCorrect /\ [][NextCorrect]_vars

----------------------------------------------------------------------------
(* HeuristicClassifier: operating systems (discover_os).  The lookup is    *)
(* the column Operating_systems of operating_systems.csv, in lower case.   *)

MaxLinesOs == 3

MaxRunOs == 5

\* a mutation of OsLabels: the BIOES labels whatever the tagging is
OsLabelsBioes(n, tagging) ==
    IF n = 1 THEN <<"S">>
    ELSE [k \in 1..n |-> IF k = 1 THEN "B" ELSE IF k = n THEN "E" ELSE "I"]

\* the entity_labels of transform_OS_output for n words: none is assigned
\* for more than five words
OsLabels(n, tagging) ==
    IF tagging = "BIOES"
    THEN IF n = 1 THEN <<"S">>
         ELSE [k \in 1..n |-> IF k = 1 THEN "B" ELSE IF k = n THEN "E" ELSE "I"]
    ELSE [k \in 1..n |-> IF k = 1 THEN "B" ELSE "I"]

\* the joined lines of words; an unassigned entity_labels raises
OsZip(words, tagging, label_name) ==
    IF Len(words) \notin 1..5 THEN Raise
    ELSE Ok(Join([k \in 1..Len(words) |->
                     Tok(words[k], Lab(OsLabels(Len(words), tagging)[k], label_name))], NL))

transform_OS_output(entity, tagging, label_name) ==
    OsZip(SplitWs(entity), tagging, label_name)

\* df[df['Operating_systems'].str.lower() == name.lower()] is not empty
get_os_by_name(name, lookup) == Lower(name) \in lookup

\* startWith in lower case; 'macos' 'Ubuntu' is one string
startWith ==
    { <<"w", "i", "n", "d", "o", "w", "s">>, <<"l", "i", "n", "u", "x">>, <<"m", "a", "c">>,
      <<"m", "a", "c", "o", "s", "u", "b", "u", "n", "t", "u">>,
      <<"f", "e", "d", "o", "r", "a">>, <<"c", "e", "n", "t", "o", "s">>,
      <<"r", "h", "e", "l">>, <<"f", "r", "e", "e", "b", "s", "d">> }

\* the test that keeps an extension
OsAccepted(entity, lookup) == get_os_by_name(Lower(entity), lookup)

\* the while loop that extends entity from line i: the entity it leaves
RECURSIVE OsExtend(_, _, _, _)
OsExtend(lines, i, entity, lookup) ==
    IF nextLine(lines, i) = None THEN Ok(entity)
    ELSE IF Split1(nextLine(lines, i))[2] = <<>> THEN Raise     \* next_label[0]: IndexError
    ELSE IF Split1(nextLine(lines, i))[2][1] # "O" THEN Ok(entity)
    ELSE IF OsAccepted(entity \o <<SP>> \o Split1(nextLine(lines, i))[1], lookup)
         THEN OsExtend(lines, i + 1, entity \o <<SP>> \o Split1(nextLine(lines, i))[1], lookup)
         ELSE Ok(entity)

\* the state of the loop of discover_os; bound says that entity was assigned
OsStart == [updated_dataset |-> <<>>, current_entity |-> <<>>, entity |-> <<>>, bound |-> FALSE]

OsAppend(st, element, entity) ==
    Ok([updated_dataset |-> Append(st.updated_dataset, element),
        current_entity |-> entity, entity |-> entity, bound |-> TRUE])

\* the span is appended as one element
OsSpanOut(st, entity, output) ==
    IF output.raised THEN Raise ELSE OsAppend(st, output.out, entity)

\* the branch of a family word: extended is what the while loop left
OsSpan(st, extended, tagging, new_label) ==
    IF extended.raised THEN Raise
    ELSE OsSpanOut(st, extended.out, transform_OS_output(extended.out, tagging, new_label))

\* a line of two parts
OsToken(lines, i, st, word, label, tagging, new_label, lookup) ==
    IF label # <<"O">> THEN OsAppend(st, lines[i], <<>>)
    ELSE IF Lower(word) = <<"a", "n", "d", "r", "o", "i", "d">>
         THEN OsAppend(st, Tok(word, Lab(IF tagging = "BIO" THEN "B" ELSE "S", new_label)), <<>>)
    ELSE IF Lower(word) \in startWith
         THEN OsSpan(st, OsExtend(lines, i, word, lookup), tagging, new_label)
    ELSE IF \E k \in 1..Len(Split(st.current_entity, SP)) :
                Split(st.current_entity, SP)[k] = word
         THEN Ok([st EXCEPT !.entity = <<>>, !.bound = TRUE])     \* continue
    ELSE OsAppend(st, Tok(word, label), <<>>)

\* one iteration of the loop
OsLine(lines, i, st, tagging, new_label, lookup) ==
    IF ~HasField(lines[i]) THEN Ok(st)
    ELSE IF Len(Split1(lines[i])) = 2
         THEN OsToken(lines, i, st, Split1(lines[i])[1], Split1(lines[i])[2],
                      tagging, new_label, lookup)
    ELSE IF ~st.bound THEN Raise     \* current_entity = entity: UnboundLocalError
    ELSE Ok([st EXCEPT !.updated_dataset = Append(st.updated_dataset, lines[i]),
                      !.current_entity = st.entity])

RECURSIVE OsLoop(_, _, _, _, _, _)
OsLoop(lines, i, st, tagging, new_label, lookup) ==
    IF st.raised THEN Raise
    ELSE IF i > Len(lines) THEN Ok(Join(st.out.updated_dataset, NL))
    ELSE OsLoop(lines, i + 1, OsLine(lines, i, st.out, tagging, new_label, lookup),
                tagging, new_label, lookup)

discover_os(text, tagging, new_label, lookup) ==
    OsLoop(SplitLines(text), 1, Ok(OsStart), tagging, new_label, lookup)

Windows == <<"W", "i", "n", "d", "o", "w", "s">>

Server == <<"S", "e", "r", "v", "e", "r">>

Mac == <<"m", "a", "c">>

OS == <<"O", "S">>

\* lines of the texts: family words and other words labeled O, a word that
\* is labeled already, the seed word, a line of one field and a blank line
LinesOs ==
    { Tok(Windows, <<"O">>), Tok(Server, <<"O">>), Tok(Windows, Lab("B", OS)),
      Tok(Mac, <<"O">>), Tok(<<"x">>, <<"O">>),
      Tok(<<"a", "n", "d", "r", "o", "i", "d">>, <<"O">>), W, <<>> }

\* a family word followed by n O tokens
RunOs(n) == Join(<<Tok(Mac, <<"O">>)>> \o [k \in 1..n |-> Tok(<<"x">>, <<"O">>)], NL)

TextsOs ==
    {Join(ls, NL) : ls \in SeqsUpTo(LinesOs, MaxLinesOs)} \cup {RunOs(n) : n \in 1..MaxRunOs}

\* the phrase "mac x ... x" of n + 1 words
PhraseOs(n) == Join(<<Mac>> \o [k \in 1..n |-> <<"x">>], SP)

\* contents of operating_systems.csv, in lower case
LookupsOs ==
    { {}, {Lower(Join(<<Windows, Server>>, SP))} }
        \cup { {PhraseOs(k) : k \in 1..n} : n \in 1..MaxRunOs }

InitOs ==
    /\ file1 \in TextsOs
    /\ file2 = <<>>
    /\ trace = <<>>
    /\ raised = FALSE
    /\ report = "none"
    /\ \E tagging \in {"BIO", "BIOES"}, lookup \in LookupsOs :
           arg = [tagging |-> tagging, lookup |-> lookup]
    /\ ret = Unset
    /\ pc = "none"
    /\ merged = Unset

\* discover_operating_systems on dataset 1
DiscoverOs ==
    /\ trace = <<>>
    /\ \E new_label \in {OS} :
           /\ LET r == discover_os(file1, arg.tagging, new_label, arg.lookup)
              IN  /\ file1' = Written(r, file1)
                  /\ raised' = r.raised
           /\ trace' = Append(trace, Call("discover_os", [new_label |-> new_label]))
    /\ UNCHANGED <<file2, report, arg, ret, pc, merged>>

NextOs == DiscoverOs

SpecOs == InitOs /\ [][NextOs]_vars

----------------------------------------------------------------------------
(* Reference refinement (TI-NERmergerV2): group_label_update, and the      *)
(* span walk of the two passes.                                            *)

MaxGap == 1

\* group_label_update has the loops of software_label_update and calls the
\* same get_type_by_name; the answers are the labels, the target label
\* name for the group and the default label
group_label_update(text, alias_table, score, typed_labels, typed_targets, typed_default) ==
    LET dataset_labels == Split(Strip(typed_labels), ",")
    IN  IF \A k \in 1..Len(dataset_labels) : Lower(dataset_labels[k]) = NA
        THEN Ok(text)
        ELSE SoftwarePasses(SplitLines(text), dataset_labels, 1,
                            Split(Strip(typed_targets), ","), Strip(typed_default),
                            alias_table, score)

\* a two-token span with up to MaxGap blank or one-field lines inside
TextsSpan ==
    {Join(<<Tok(WordAB, Lab("B", X))>> \o gap \o <<Tok(WordZz, Lab("I", X))>>, NL) :
        gap \in SeqsUpTo({<<>>, W}, MaxGap)}

\* the entities the passes can ask for on these texts: a line read again
\* adds a word
EntitiesSpans ==
    {Lower(Join(ws, SP)) :
        ws \in SeqsUpTo({WordAB, WordZz}, MaxLinesSoft + MaxGap + 1) \ {<<>>}}

ScorersSpans ==
    {[p \in EntitiesSpans \X AliasPool |-> IF p[1] = p[2] THEN 100 ELSE v] :
        v \in {fuzzy_threshold - 1, fuzzy_threshold}}

InitSpans ==
    /\ file1 \in TextsSoft \cup TextsSpan
    /\ file2 = <<>>
    /\ trace = <<>>
    /\ raised = FALSE
    /\ report = "none"
    /\ \E alias_table \in AliasTables, score \in ScorersSpans :
           arg = [alias_table |-> alias_table, score |-> score, loaded |-> TRUE]
    /\ ret = Unset
    /\ pc = "none"
    /\ merged = Unset

\* answers to "enter the target label name for the group (eg., APT)"
AnswersGroupTargets == { <<"G">>, <<"T", ",", "M", ",", "G">> }

GroupLabelUpdate ==
    /\ ~raised
    /\ arg.loaded
    /\ \A c \in 1..Len(trace) : trace[c].op # "group_label_update"
    /\ \E labels \in AnswersLabels, targets \in AnswersGroupTargets, default \in AnswersDefault :
           /\ LET r == group_label_update(file1, arg.alias_table, arg.score,
                                          labels, targets, default)
              IN  /\ file1' = Written(r, file1)
                  /\ raised' = r.raised
           /\ trace' = Append(trace, Call("group_label_update",
                                  [labels |-> labels, targets |-> targets, default |-> default]))
    /\ UNCHANGED <<file2, report, arg, ret, pc, merged>>

NextSpans == SoftwareLabelUpdate \/ GroupLabelUpdate

SpecSpans == InitSpans /\ [][NextSpans]_vars

----------------------------------------------------------------------------
(* classify_file.                                                          *)

MaxLinesClassify == 3

\* one line of classify_file: what it appends, or the exception.  A line
\* of the refined type with tag B and a following I or E appends nothing.
ClassifyLine(lines, i, dataset_label, default_label) ==
    LET line == lines[i]
        parts == Split1(line)
    IN  IF HasField(line) /\ Len(parts) = 2
        THEN LET word == parts[1]
                 label == parts[2]
             IN  IF From2(label) # dataset_label THEN Ok(<<line>>)
                 ELSE IF label = <<>> THEN Raise            \* label[0]: IndexError
                 ELSE IF label[1] = "S"
                 THEN Ok(<<Tok(word, Lab("S", sampleFile(word, default_label)))>>)
                 ELSE IF label[1] = "B"
                 THEN LET next_line == nextLine(lines, i)
                      IN  IF next_line = None THEN Raise    \* None.split: AttributeError
                          ELSE IF Split1(next_line)[2] = <<>> THEN Raise   \* next_label[0]
                          ELSE IF Split1(next_line)[2][1] \notin {"I", "E"}
                          THEN Ok(<<Tok(word, Lab("B", sampleFile(word, default_label)))>>)
                          ELSE Ok(<<>>)
                 ELSE Ok(<<line>>)
        ELSE Ok(<<line>>)

RECURSIVE ClassifyLoop(_, _, _, _, _)
ClassifyLoop(lines, i, dataset_label, default_label, updated_dataset) ==
    IF i > Len(lines) THEN Ok(Join(updated_dataset, NL))
    ELSE LET r == ClassifyLine(lines, i, dataset_label, default_label)
         IN  IF r.raised THEN Raise
             ELSE ClassifyLoop(lines, i + 1, dataset_label, default_label,
                               updated_dataset \o r.out)

\* typed_label and typed_default are the operator's two answers
classify_file(text, typed_label, typed_default) ==
    ClassifyLoop(SplitLines(text), 1, Strip(typed_label), Strip(typed_default), <<>>)

\* lines of classify_file's inputs: blank, one field, a file name and a
\* plain word as S, B, I, E of the type X, an O token, a B of another type
LinesClassify ==
    { <<>>, W, Tok(WordFile, Lab("S", X)), Tok(WordFile, Lab("B", X)),
      Tok(W, Lab("B", X)), Tok(W, Lab("I", X)), Tok(W, Lab("E", X)),
      Tok(W, <<"O">>), Tok(W, Lab("B", <<"Y">>)) }

TextsClassify == {Join(ls, NL) : ls \in SeqsUpTo(LinesClassify, MaxLinesClassify)}

\* answers to "enter the file labels for entities to be classified"
FileLabels == { X, <<SP, "X", SP>>, <<"Y">> }

InitClassify ==
    /\ file1 \in TextsClassify
    /\ file2 = <<>>
    /\ trace = <<>>
    /\ raised = FALSE
    /\ report = "none"
    /\ arg = NoArg
    /\ ret = Unset
    /\ pc = "none"
    /\ merged = Unset

ClassifyFile ==
    /\ trace = <<>>
    /\ \E typed_label \in FileLabels :
           /\ LET r == classify_file(file1, typed_label, <<"D">>)
              IN  /\ file1' = Written(r, file1)
                  /\ raised' = r.raised
           /\ trace' = Append(trace, Call("classify_file",
                                  [label |-> typed_label, default |-> <<"D">>]))
    /\ UNCHANGED <<file2, report, arg, ret, pc, merged>>

NextClassify == ClassifyFile

SpecClassify == InitClassify /\ [][NextClassify]_vars

----------------------------------------------------------------------------
(* main (TI-NERmergerV2; TI-NERmerger has the same steps and no alias      *)
(* table): the conversion to args.format_choice, createTables, and then,   *)
(* each after a yes of the operator, the stages in the order of the        *)
(* statements of main and of oneToManyMappings, the merge being the last.  *)

MaxLinesMain == 1

\* a mutation of StepsOfMain: the merge stands before the OS discovery
StepsMergeEarly ==
    << "convert", "createTables", "oneTo1Mappings", "manyTo1Mappings",
       "oneToManyMappings", "classify_file", "classify_exploit",
       "software_label_update", "group_label_update", "discoveryIOCs",
       "discover_encry_algorithms", "merge_datasets", "discover_operating_systems" >>

\* the statements of main, with those of oneToManyMappings in their place
StepsOfMain ==
    << "convert", "createTables", "oneTo1Mappings", "manyTo1Mappings",
       "oneToManyMappings", "classify_file", "classify_exploit",
       "software_label_update", "group_label_update", "discoveryIOCs",
       "discover_encry_algorithms", "discover_operating_systems", "merge_datasets" >>

\* the step after a step; "done" after the last one
Following(step) ==
    LET k == CHOOSE n \in 1..Len(StepsOfMain) : StepsOfMain[n] = step
    IN  IF k < Len(StepsOfMain) THEN StepsOfMain[k + 1] ELSE "done"

\* main's first block on one dataset: convert when the detected format is
\* the other one
ConvertFile(text, format_choice) ==
    LET format == detect_format(text)
    IN  IF format.raised THEN Raise
        ELSE IF format_choice = "BIO" /\ format.out = "BIOES" THEN convert_to_bio(text)
        ELSE IF format_choice = "BIOES" /\ format.out = "BIO" THEN convert_to_bioes(text)
        ELSE Ok(text)

\* main writes the two files after both conversions: an exception in
\* either leaves both files as they were
Converted(f1, f2, r1, r2) ==
    IF r1.raised \/ r2.raised THEN Outcome(f1, f2, TRUE, "none")
    ELSE Outcome(r1.out, r2.out, FALSE, "none")

\* a stage's two with-blocks: dataset 1 is rewritten before dataset 2 is
\* read, and an exception ends the run with the files as they are then
TwoFiles(f1, f2, apply1, r1, apply2, r2) ==
    IF apply1 /\ r1.raised THEN Outcome(f1, f2, TRUE, "none")
    ELSE IF apply2 /\ r2.raised
         THEN Outcome(IF apply1 THEN r1.out ELSE f1, f2, TRUE, "none")
         ELSE Outcome(IF apply1 THEN r1.out ELSE f1, IF apply2 THEN r2.out ELSE f2,
                      FALSE, "none")

\* prompt_user_for_labels_manyTo1, from the line the operator types
prompt_user_for_labels_manyTo1(typed) ==
    LET labels == Strip(typed)
    IN  IF Lower(labels) = NA THEN NoList ELSE StripEach(Split(labels, ";"))

\* the with-block of one dataset in manyTo1Mappings
ManyFile(apply, content, labels, targets) ==
    IF apply /\ Truthy(labels) /\ Truthy(targets)
    THEN perform_many_to_1_mapping(content, labels, targets)
    ELSE Ok(content)

\* manyTo1Mappings after the prompts: l1, t1, l2, t2 are the four lists
manyTo1Mappings(f1, f2, apply1, l1, t1, apply2, l2, t2) ==
    IF IsNA(l1) /\ IsNA(t1) /\ IsNA(l2) /\ IsNA(t2)
    THEN Outcome(f1, f2, FALSE, "Skipping Many-to-1 mapping as all labels are 'NA'.")
    ELSE TwoFiles(f1, f2, TRUE, ManyFile(apply1, f1, l1, t1),
                  TRUE, ManyFile(apply2, f2, l2, t2))

\* lines of the datasets: spans of the type X with the tags of both
\* schemes, and O tokens the discovery stages label
LinesMain ==
    { Tok(WordAB, Lab("S", X)), Tok(WordZz, Lab("E", X)),
      Tok(WordIP, <<"O">>), Tok(AES, <<"O">>), Tok(Windows, <<"O">>) }

\* a dataset in the other scheme: a span that ends with E, and an O token
SpanMain == Join(<<Tok(WordAB, Lab("B", X)), Tok(WordZz, Lab("E", X)), Tok(AES, <<"O">>)>>, NL)

TextsMain ==
    {Join(ls, NL) : ls \in SeqsUpTo(LinesMain, MaxLinesMain) \ {<<>>}} \cup {SpanMain}

\* dataset 2: a span of another type, or an O token
TextsMain2 == { Tok(WordAB, Lab("S", <<"Y">>)) }

\* a run with the cache file of an earlier run on disk
EnvironmentsMain ==
    {env \in Environments :
        /\ env.cache.exists /\ env.on_disk /\ env.pages /\ ~env.download
        /\ env.stix = <<>> /\ env.order = AliasUniverse /\ env.software_rows = <<>>}

InitMain ==
    /\ file1 \in TextsMain
    /\ file2 \in TextsMain2
    /\ trace = <<>>
    /\ raised = FALSE
    /\ report = "none"
    /\ \E format_choice \in {"BIO", "BIOES"}, env \in EnvironmentsMain :
           arg = [format_choice |-> format_choice, env |-> env, alias_table |-> <<>>,
                  score |-> ScorerTables,
                  lookup |-> {Lower(Windows)}]
    /\ ret = Unset
    /\ pc = "convert"
    /\ merged = Unset

\* what a step of main leaves: the files, the exception, the next step
Leave(step, called, outcome) ==
    /\ file1' = outcome.file1
    /\ file2' = outcome.file2
    /\ raised' = outcome.raised
    /\ report' = outcome.report
    /\ trace' = IF called THEN Append(trace, Call(step, NoArg)) ELSE trace
    /\ pc' = IF outcome.raised THEN pc ELSE Following(step)

\* the stage is not executed: the operator answers n
Skipped == Outcome(file1, file2, FALSE, "none")

MainConvert ==
    /\ pc = "convert" /\ ~raised
    /\ Leave("convert", TRUE,
             Converted(file1, file2, ConvertFile(file1, arg.format_choice),
                       ConvertFile(file2, arg.format_choice)))
    /\ UNCHANGED <<arg, ret, merged>>

MainCreateTables ==
    /\ pc = "createTables" /\ ~raised
    /\ LET r == createTables(arg.env)
       IN  /\ raised' = r.raised
           /\ arg' = IF r.raised THEN arg ELSE [arg EXCEPT !.alias_table = r.out]
           /\ pc' = IF r.raised THEN pc ELSE Following("createTables")
    /\ trace' = Append(trace, Call("createTables", NoArg))
    /\ UNCHANGED <<file1, file2, report, ret, merged>>

MainOneTo1 ==
    /\ pc = "oneTo1Mappings" /\ ~raised
    /\ \E run, apply1, apply2 \in BOOLEAN :
           Leave("oneTo1Mappings", run,
                 IF run
                 THEN oneTo1Mappings(file1, file2,
                          apply1, IF apply1 THEN <<X>> ELSE NoList,
                          IF apply1 THEN <<T>> ELSE NoList,
                          apply2, IF apply2 THEN << <<"Y">> >> ELSE NoList,
                          IF apply2 THEN <<X>> ELSE NoList)
                 ELSE Skipped)
    /\ UNCHANGED <<arg, ret, merged>>

MainManyTo1 ==
    /\ pc = "manyTo1Mappings" /\ ~raised
    /\ \E run, apply1, apply2 \in BOOLEAN :
           Leave("manyTo1Mappings", run,
                 IF run
                 THEN manyTo1Mappings(file1, file2,
                          apply1, IF apply1 THEN << <<"T", ",", "Y">> >> ELSE NoList,
                          IF apply1 THEN <<X>> ELSE NoList,
                          apply2, IF apply2 THEN << <<"T", ",", "Y">> >> ELSE NoList,
                          IF apply2 THEN <<X>> ELSE NoList)
                 ELSE Skipped)
    /\ UNCHANGED <<arg, ret, merged>>

\* the prompt for oneToManyMappings: after n the four passes are passed over
MainOneToMany ==
    /\ pc = "oneToManyMappings" /\ ~raised
    /\ \E run \in BOOLEAN :
           /\ pc' = IF run THEN Following("oneToManyMappings")
                    ELSE Following("group_label_update")
           /\ trace' = IF run THEN Append(trace, Call("oneToManyMappings", NoArg))
                       ELSE trace
    /\ UNCHANGED <<file1, file2, raised, report, arg, ret, merged>>

MainClassifyFile ==
    /\ pc = "classify_file" /\ ~raised
    /\ \E apply1, apply2 \in BOOLEAN :
           Leave("classify_file", FALSE,
                 TwoFiles(file1, file2, apply1, classify_file(file1, X, <<"D">>),
                          apply2, classify_file(file2, X, <<"D">>)))
    /\ UNCHANGED <<arg, ret, merged>>

MainClassifyExploit ==
    /\ pc = "classify_exploit" /\ ~raised
    /\ \E apply1, apply2 \in BOOLEAN :
           Leave("classify_exploit", FALSE,
                 TwoFiles(file1, file2,
                          apply1, classify_exploit(file1, X, <<"T", ",", "U">>),
                          apply2, classify_exploit(file2, X, <<"T", ",", "U">>)))
    /\ UNCHANGED <<arg, ret, merged>>

MainSoftware ==
    /\ pc = "software_label_update" /\ ~raised
    /\ \E apply1, apply2 \in BOOLEAN :
           Leave("software_label_update", FALSE,
                 TwoFiles(file1, file2,
                          apply1, software_label_update(file1, arg.alias_table, arg.score,
                                      X, <<"T", ",", "M", ",", "G">>, <<"D">>),
                          apply2, software_label_update(file2, arg.alias_table, arg.score,
                                      X, <<"T", ",", "M", ",", "G">>, <<"D">>)))
    /\ UNCHANGED <<arg, ret, merged>>

MainGroup ==
    /\ pc = "group_label_update" /\ ~raised
    /\ \E apply1, apply2 \in BOOLEAN :
           Leave("group_label_update", FALSE,
                 TwoFiles(file1, file2,
                          apply1, group_label_update(file1, arg.alias_table, arg.score,
                                      X, <<"T", ",", "M", ",", "G">>, <<"D">>),
                          apply2, group_label_update(file2, arg.alias_table, arg.score,
                                      X, <<"T", ",", "M", ",", "G">>, <<"D">>)))
    /\ UNCHANGED <<arg, ret, merged>>

MainIocs ==
    /\ pc = "discoveryIOCs" /\ ~raised
    /\ \E run, apply1, apply2 \in BOOLEAN :
           Leave("discoveryIOCs", run,
                 IF run
                 THEN TwoFiles(file1, file2,
                          apply1, Ok(discover_low_iocs(file1, arg.format_choice,
                                                       [c \in Categories |-> T])),
                          apply2, Ok(discover_low_iocs(file2, arg.format_choice,
                                                       [c \in Categories |-> T])))
                 ELSE Skipped)
    /\ UNCHANGED <<arg, ret, merged>>

MainEncr ==
    /\ pc = "discover_encry_algorithms" /\ ~raised
    /\ \E run, apply1, apply2 \in BOOLEAN :
           Leave("discover_encry_algorithms", run,
                 IF run
                 THEN TwoFiles(file1, file2,
                          apply1, discover_encr(file1, arg.format_choice, T),
                          apply2, discover_encr(file2, arg.format_choice, T))
                 ELSE Skipped)
    /\ UNCHANGED <<arg, ret, merged>>

MainOs ==
    /\ pc = "discover_operating_systems" /\ ~raised
    /\ \E run, apply1, apply2 \in BOOLEAN :
           Leave("discover_operating_systems", run,
                 IF run
                 THEN TwoFiles(file1, file2,
                          apply1, discover_os(file1, arg.format_choice, OS, arg.lookup),
                          apply2, discover_os(file2, arg.format_choice, OS, arg.lookup))
                 ELSE Skipped)
    /\ UNCHANGED <<arg, ret, merged>>

\* merge_datasets, after a yes, writes dataset 1, a line break and dataset 2
MainMerge ==
    /\ pc = "merge_datasets" /\ ~raised
    /\ \E run \in BOOLEAN :
           /\ merged' = IF run THEN Join(<<file1, file2>>, NL) ELSE merged
           /\ trace' = IF run THEN Append(trace, Call("merge_datasets", NoArg)) ELSE trace
    /\ pc' = Following("merge_datasets")
    /\ UNCHANGED <<file1, file2, raised, report, arg, ret>>

NextMain ==
    \/ MainConvert \/ MainCreateTables \/ MainOneTo1 \/ MainManyTo1
    \/ MainOneToMany \/ MainClassifyFile \/ MainClassifyExploit
    \/ MainSoftware \/ MainGroup \/ MainIocs \/ MainEncr \/ MainOs \/ MainMerge

SpecMain == InitMain /\ [][NextMain]_vars

----------------------------------------------------------------------------
(* Vocabulary of the properties.                                           *)

LastCall == trace[Len(trace)]

Called(op) == trace # <<>> /\ LastCall.op = op

\* the whitespace-separated fields of a line
Fields(line) == SelectSeq(Split(line, SP), LAMBDA p : p # <<>>)

\* a token line: exactly two fields joined by one space
IsTokenLine(line) == Len(Fields(line)) = 2 /\ line = Tok(Fields(line)[1], Fields(line)[2])

WordOf(line) == Fields(line)[1]

LabelOf(line) == Fields(line)[2]

\* a label O or <tag>-<type> with the tag in tags and a non-empty type
IsLabel(label, tags) ==
    \/ label = <<"O">>
    \/ /\ Len(label) >= 3
       /\ label[1] \in tags
       /\ label[2] = "-"

TagOf(line) == LabelOf(line)[1]

TypeOf(line) == From2(LabelOf(line))

\* every line is a token line tagged from tags, or has no space at all
PlainText(text, tags) ==
    \A i \in 1..Len(Split(text, NL)) :
        LET line == Split(text, NL)[i]
        IN  \/ FirstIndex(line, SP) = 0
            \/ IsTokenLine(line) /\ IsLabel(LabelOf(line), tags)

\* positions of the token lines before / after position i
TokensBefore(lines, i) == {j \in 1..(i - 1) : IsTokenLine(lines[j])}

TokensAfter(lines, i) == {j \in (i + 1)..Len(lines) : IsTokenLine(lines[j])}

Max(S) == CHOOSE m \in S : \A n \in S : n <= m

Min(S) == CHOOSE m \in S : \A n \in S : m <= n

\* legally tagged: each I or E follows a B or I of the same type
LegallyTagged(text, tags) ==
    /\ PlainText(text, tags)
    /\ LET lines == Split(text, NL)
       IN  \A i \in 1..Len(lines) :
               (IsTokenLine(lines[i]) /\ TagOf(lines[i]) \in {"I", "E"}) =>
                   /\ TokensBefore(lines, i) # {}
                   /\ LET p == lines[Max(TokensBefore(lines, i))]
                      IN  TagOf(p) \in {"B", "I"} /\ TypeOf(p) = TypeOf(lines[i])

----------------------------------------------------------------------------
(* Properties of the TagFormatConverter.                                   *)

\* C1: round trip.  For a legally tagged canonical BIO text x,
\* convert_to_bioes(x) returns and convert_to_bio of it is x again (x taken
\* without the blank lines at its two ends); and for a legally tagged y,
\* convert_to_bio(convert_to_bioes(convert_to_bio(y))) = convert_to_bio(y).
RoundTripBIO ==
    /\ (trace # <<>> /\ trace[1].op = "convert_to_bioes"
            /\ LegallyTagged(trace[1].pre1, {"B", "I"})) =>
          /\ Len(trace) = 1 => ~raised
          /\ (Len(trace) = 2 /\ trace[2].op = "convert_to_bio") =>
                 (~raised /\ file1 = Strip(trace[1].pre1))
    /\ (Len(trace) >= 2 /\ trace[1].op = "convert_to_bio"
            /\ trace[2].op = "convert_to_bioes"
            /\ LegallyTagged(trace[1].pre1, {"B", "I", "E", "S"})) =>
          /\ Len(trace) = 2 => ~raised
          /\ (Len(trace) = 3 /\ trace[3].op = "convert_to_bio") =>
                 (~raised /\ file1 = trace[2].pre1)

\* C2: a B or I token that no labeled line follows is converted without an
\* exception, to S or E of the same type.
EndOfSequenceIsSpanFinal ==
    (Called("convert_to_bioes") /\ PlainText(LastCall.pre1, {"B", "I"})) =>
        LET lines == SplitLines(LastCall.pre1)
            toks == {j \in 1..Len(lines) : IsTokenLine(lines[j])}
        IN  (toks # {} /\ TagOf(lines[Max(toks)]) \in {"B", "I"}) =>
                /\ ~raised
                /\ LET out == Split(file1, NL)
                       l == lines[Max(toks)]
                       final == IF TagOf(l) = "B" THEN "S" ELSE "E"
                   IN  /\ Len(out) = Len(lines)
                       /\ out[Max(toks)] = Tok(WordOf(l), Lab(final, TypeOf(l)))

\* C3: convert_to_bioes keeps a B-X or I-X only when the next labeled token
\* is I-X of the same type X; otherwise B-X becomes S-X and I-X becomes E-X;
\* O tokens and unlabeled lines are unchanged.
SpanFinalityByTagAndType ==
    (Called("convert_to_bioes") /\ ~raised /\ PlainText(LastCall.pre1, {"B", "I"})) =>
        LET lines == SplitLines(LastCall.pre1)
            out == Split(file1, NL)
        IN  /\ Len(out) = Len(lines)
            /\ \A i \in 1..Len(lines) :
                   LET l == lines[i]
                   IN  IF IsTokenLine(l) /\ TagOf(l) \in {"B", "I"}
                       THEN LET after == TokensAfter(lines, i)
                                goesOn == /\ after # {}
                                          /\ TagOf(lines[Min(after)]) = "I"
                                          /\ TypeOf(lines[Min(after)]) = TypeOf(l)
                                final == IF TagOf(l) = "B" THEN "S" ELSE "E"
                            IN  out[i] = IF goesOn THEN l
                                         ELSE Tok(WordOf(l), Lab(final, TypeOf(l)))
                       ELSE out[i] = l

----------------------------------------------------------------------------
(* Properties of the LabelRemapper.                                        *)

IsRemap == Called("perform_1to1_mapping") \/ Called("perform_many_to_1_mapping")

\* C4: span-shape preservation.  A remap stage returns as many lines as the
\* input has (the input taken without the blank lines at its two ends); on
\* each token line the word and the tag letter are the input's, and a token
\* labeled O is not altered.
SpanShapePreserved ==
    (IsRemap /\ ~raised) =>
        LET lines == SplitLines(LastCall.pre1)
            out == Split(file1, NL)
        IN  /\ Len(out) = Len(lines)
            /\ \A i \in 1..Len(lines) :
                   IsTokenLine(lines[i]) =>
                       /\ IsTokenLine(out[i])
                       /\ WordOf(out[i]) = WordOf(lines[i])
                       /\ TagOf(out[i]) = TagOf(lines[i])
                       /\ LabelOf(lines[i]) = <<"O">> => out[i] = lines[i]

\* positions of the rules of a one-to-one list whose source is the type
RulesFor(source, type) == {k \in 1..Len(source) : source[k] = type}

\* C5: one-to-one remap with lists of equal length returns, and each token
\* not labeled O whose type is sourceTypes[k], k the first such position,
\* gets the type targetTypes[k] and keeps word and tag; a token whose type
\* is no source is unchanged.  The match is on the input's type only.
OneTo1FirstMatchOnOriginal ==
    (Called("perform_1to1_mapping")
        /\ Len(LastCall.cfg.source) = Len(LastCall.cfg.target)) =>
        LET lines == SplitLines(LastCall.pre1)
            out == Split(file1, NL)
            source == LastCall.cfg.source
            target == LastCall.cfg.target
        IN  /\ ~raised
            /\ Len(out) = Len(lines)
            /\ \A i \in 1..Len(lines) :
                   (IsTokenLine(lines[i]) /\ TagOf(lines[i]) # "O") =>
                       LET l == lines[i]
                           hits == RulesFor(source, TypeOf(l))
                       IN  out[i] = IF hits = {} THEN l
                                    ELSE Tok(WordOf(l), Lab(TagOf(l), target[Min(hits)]))

\* a one-to-one call with the rules X -> Y, Y -> T has rewritten a B-X token
\* to B-Y, which the second rule has not taken on to T
OneTo1NoChainSeen ==
    /\ Called("perform_1to1_mapping")
    /\ ~raised
    /\ LastCall.cfg.source = <<X, Y>>
    /\ LastCall.cfg.target = <<Y, T>>
    /\ LastCall.pre1 = Tok(W, Lab("B", X))
    /\ file1 = Tok(W, Lab("B", Y))

\* positions of the groups one of whose comma-separated members is the type
GroupsFor(groups, type) ==
    {k \in 1..Len(groups) : \E m \in 1..Len(Split(groups[k], ",")) :
                                Split(groups[k], ",")[m] = type}

\* C6: many-to-one remap.  Each token not labeled O whose type is a member
\* of some group gets the target at the position of the first such group
\* (the call raises when the targets are fewer than that position); a token
\* whose type is in no group is unchanged.
ManyTo1FirstGroupWins ==
    Called("perform_many_to_1_mapping") =>
        LET lines == SplitLines(LastCall.pre1)
            out == Split(file1, NL)
            groups == LastCall.cfg.source
            target == LastCall.cfg.target
        IN  /\ Len(groups) <= Len(target) => ~raised
            /\ ~raised =>
                /\ Len(out) = Len(lines)
                /\ \A i \in 1..Len(lines) :
                       (IsTokenLine(lines[i]) /\ TagOf(lines[i]) # "O") =>
                           LET l == lines[i]
                               hits == GroupsFor(groups, TypeOf(l))
                           IN  out[i] = IF hits = {} THEN l
                                        ELSE Tok(WordOf(l), Lab(TagOf(l), target[Min(hits)]))

\* a many-to-one call whose groups "X,Y" and "Y" both hold Y has given an
\* I-Y token the first group's target
ManyTo1EarliestGroupSeen ==
    /\ Called("perform_many_to_1_mapping")
    /\ ~raised
    /\ LastCall.cfg.source = <<X \o <<",">> \o Y, Y>>
    /\ LastCall.cfg.target = <<T, Y>>
    /\ LastCall.pre1 = Tok(W, Lab("I", Y))
    /\ file1 = Tok(W, Lab("I", T))

----------------------------------------------------------------------------
(* Properties of the one-to-one stage.                                     *)

\* a dataset's two lists are lists of different lengths
Mismatch(labels, targets) ==
    labels # NoList /\ targets # NoList /\ Len(labels) # Len(targets)

StageMismatch ==
    /\ Called("oneTo1Mappings")
    /\ \/ Mismatch(LastCall.cfg.l1, LastCall.cfg.t1)
       \/ Mismatch(LastCall.cfg.l2, LastCall.cfg.t2)

AllEnteredNA ==
    /\ IsNA(LastCall.cfg.l1) /\ IsNA(LastCall.cfg.t1)
    /\ IsNA(LastCall.cfg.l2) /\ IsNA(LastCall.cfg.t2)

ErrorSaid == report = "Error: The number of labels and target labels should be the same."

FilesUntouched == file1 = LastCall.pre1 /\ file2 = LastCall.pre2

\* C7 as stated: when a dataset's source and target lists differ in length
\* the mismatch is reported, nothing is raised and the files are unchanged.
ArityMismatchReported ==
    StageMismatch => (ErrorSaid /\ ~raised /\ FilesUntouched)

\* C7, amended: when a dataset's source and target lists differ in length,
\* nothing is raised and both files are unchanged; the mismatch is reported
\* unless every entered list is NA (None or all entries "na"), and then the
\* stage says that no mapping is required.
ArityMismatchSkipsStage ==
    StageMismatch =>
        /\ ~raised
        /\ FilesUntouched
        /\ IF AllEnteredNA
           THEN report = "No 1-to-1 mapping is required. Exiting."
           ELSE ErrorSaid

\* the stage was asked to map X to T on dataset 1 with one source and two
\* targets, dataset 1 holds a B-X token, and the stage reported the error
ArityMismatchSeen ==
    /\ Called("oneTo1Mappings")
    /\ LastCall.cfg.l1 = <<X>>
    /\ LastCall.cfg.t1 = <<T, T>>
    /\ LastCall.pre1 = Join(<<Tok(W, Lab("B", X)), Tok(W, <<"O">>)>>, NL)
    /\ ErrorSaid
    /\ file1 = LastCall.pre1

\* every line of the input that has not exactly two fields stands, unchanged,
\* at its position in the output (both taken without the blank lines at
\* their two ends)
MalformedKept(text_in, text_out) ==
    LET lines == SplitLines(text_in)
        out == SplitLines(text_out)
    IN  \A i \in 1..Len(lines) :
            Len(Fields(lines[i])) # 2 => (i <= Len(out) /\ out[i] = lines[i])

\* C8: malformed-line pass-through in the converters and remappers.  After
\* convert_to_bio, convert_to_bioes, perform_1to1_mapping or
\* perform_many_to_1_mapping has returned, every input line that has not
\* exactly two space-separated fields (blank, one field, three or more
\* fields) is in the output verbatim and at the same position.
MalformedLinesPassThrough ==
    ((Called("convert_to_bio") \/ Called("convert_to_bioes") \/ IsRemap) /\ ~raised) =>
        MalformedKept(LastCall.pre1, file1)

\* C9: malformed-line pass-through in the content passes.  After
\* classify_exploit or discover_encr has returned, every blank or malformed
\* line of the input is in the output verbatim and at the same position.
ContentLinesPassThrough ==
    ((Called("classify_exploit") \/ Called("discover_encr")) /\ ~raised) =>
        MalformedKept(LastCall.pre1, file1)

\* C10: hash length boundary.  For a token that is no file name and is a run
\* of n hexadecimal characters with nothing but punctuation around it,
\* sampleFile answers MD5 for n = 32, SHA1 for n in 33..40, SHA2 for n in
\* 41..64 and SHA3 for n in 65..128: n is the length of the run, not of the
\* token with its punctuation.
HashLengthBoundary ==
    (/\ ret # Unset
     /\ isFile(arg.entity) = None
     /\ Cleaned(arg.entity) = HexRun(arg.run)) =>
        /\ arg.run = 32 => ret = <<"M", "D", "5">>
        /\ arg.run \in 33..40 => ret = <<"S", "H", "A", "1">>
        /\ arg.run \in 41..64 => ret = <<"S", "H", "A", "2">>
        /\ arg.run \in 65..128 => ret = <<"S", "H", "A", "3">>

----------------------------------------------------------------------------
(* Properties of isFile.                                                   *)

\* the text, its punctuation removed and in lower case, ends in a dot
\* followed by ext
EndsInDot(text, ext) == EndsWith(Lower(Cleaned(text)), <<".">> \o ext)

\* C11: isFile answers FILE only for a text that ends in a dot followed by
\* one of the non-empty extensions, and answers no type for a text that ends
\* in one of the excluded domains or in a bare dot.
FileExclusion ==
    ret # Unset =>
        /\ ret = <<"F", "I", "L", "E">> =>
               \E ext \in FileExtensions \ {<<>>} : EndsInDot(arg.text, ext)
        /\ ((\E d \in ExcludedDomains : EndsInDot(arg.text, d)) \/ EndsInDot(arg.text, <<>>)) =>
               ret = None

----------------------------------------------------------------------------
(* Properties of discover_low_iocs.                                        *)

\* C12: per-category skip.  After discover_low_iocs, when all six answers
\* are NA the text is the input; otherwise every input line is still there,
\* and a token labeled O either keeps its line or gets a label whose entity
\* type is not NA: a category answered NA relabels nothing.
SkippedCategoryRelabelsNothing ==
    Called("discover_low_iocs") =>
        LET answers == LastCall.cfg.answers
            lines == SplitLines(LastCall.pre1)
            out == Split(file1, NL)
        IN  IF \A c \in Categories : Lower(answers[c]) = NA
            THEN file1 = LastCall.pre1
            ELSE /\ Len(out) = Len(lines)
                 /\ \A i \in 1..Len(lines) :
                        (IsTokenLine(lines[i]) /\ LabelOf(lines[i]) = <<"O">>) =>
                            \/ out[i] = lines[i]
                            \/ /\ IsTokenLine(out[i])
                               /\ Lower(TypeOf(out[i])) # NA

----------------------------------------------------------------------------
(* Properties of resolve_entity.                                           *)

\* positions of the pairs of the flat alias list whose alias normalizes to
\* the normalized query
ExactHits(query, alias_table) ==
    {k \in 1..Len(FlatAliases(alias_table)) :
        normalize(FlatAliases(alias_table)[k].alias) = normalize(query)}

\* C13: stage order.  When some alias of the table normalizes to the same
\* string as the query, resolve_entity returns the first such (entry,
\* alias) in table order, without a fuzzy score, whatever the scores are.
ExactStageFirst ==
    \A c \in 1..Len(trace) :
        LET call == trace[c]
            flat == FlatAliases(call.pre)
            hits == ExactHits(call.query, call.pre)
        IN  hits # {} =>
                /\ ~call.result.raised
                /\ call.result.out = [found |-> TRUE,
                                      canonical |-> flat[Min(hits)].canonical,
                                      type |-> flat[Min(hits)].type,
                                      match |-> flat[Min(hits)].alias]

\* the query AB was resolved by the exact stage to the alias a-b of the
\* entry cd, the first of two aliases that normalize to "ab", although the
\* alias cd scores 100 against the query and a-b scores below the threshold
ExactBeatsFuzzySeen ==
    /\ trace # <<>>
    /\ trace[1].query = <<"A", "B">>
    /\ Len(trace[1].pre) = 2
    /\ trace[1].pre[1].canonical = AliasCD
    /\ trace[1].pre[2].canonical = AliasA_B
    /\ arg.score[<<AliasAB, AliasCD>>] = 100
    /\ arg.score[<<AliasAB, AliasA_B>>] = fuzzy_threshold - 1
    /\ ~trace[1].result.raised
    /\ trace[1].result.out.canonical = AliasCD
    /\ trace[1].result.out.match = AliasA_B

\* the highest score of an alias of the table against the query
BestScore(query, alias_table) ==
    Max({arg.score[<<Lower(query), FlatAliases(alias_table)[k].alias>>] :
            k \in 1..Len(FlatAliases(alias_table))})

\* C14: threshold boundary.  When no alias normalizes to the query and the
\* table has an alias, the result is a match iff the highest score is at
\* least fuzzy_threshold; the match is an alias of that score, the score is
\* reported, and the canonical is an entry that has the alias.
FuzzyThresholdBoundary ==
    \A c \in 1..Len(trace) :
        LET call == trace[c]
            flat == FlatAliases(call.pre)
        IN  (ExactHits(call.query, call.pre) = {} /\ flat # <<>>) =>
                /\ ~call.result.raised
                /\ call.result.out.found <=> BestScore(call.query, call.pre) >= fuzzy_threshold
                /\ call.result.out.found =>
                       /\ call.result.out.fuzzy_score = BestScore(call.query, call.pre)
                       /\ arg.score[<<Lower(call.query), call.result.out.match>>]
                              = BestScore(call.query, call.pre)
                       /\ \E k \in 1..Len(call.pre) :
                              /\ call.pre[k].canonical = call.result.out.canonical
                              /\ call.pre[k].type = call.result.out.type
                              /\ \E a \in 1..Len(call.pre[k].aliases) :
                                     call.pre[k].aliases[a] = call.result.out.match

\* the query Zz, which no alias equals, was resolved to an alias that
\* scores exactly the threshold
ThresholdScoreAcceptedSeen ==
    /\ trace # <<>>
    /\ trace[1].query = <<"Z", "z">>
    /\ ~trace[1].result.raised
    /\ trace[1].result.out.found
    /\ trace[1].result.out.fuzzy_score = fuzzy_threshold

----------------------------------------------------------------------------
(* Properties of the reference refinement.                                 *)

\* every line of the text is a token labeled O or S-<type>
SingleTokenSpansOnly(text) ==
    \A i \in 1..Len(SplitLines(text)) :
        /\ IsTokenLine(SplitLines(text)[i])
        /\ TagOf(SplitLines(text)[i]) \in {"O", "S"}

\* C15: category-to-label mapping.  After software_label_update on a text
\* of single-token spans, a span of the refined type whose word resolves to
\* a tool gets the first target label, to a malware the second, to any
\* other category the third, and a word that resolves to nothing gets the
\* default label; the tag S and the word are kept.
CategoryToLabel ==
    (Called("software_label_update") /\ ~raised /\ LastCall.cfg.labels = X
        /\ SingleTokenSpansOnly(LastCall.pre1)) =>
        LET lines == SplitLines(LastCall.pre1)
            out == Split(file1, NL)
            targets == Split(LastCall.cfg.targets, ",")
        IN  /\ Len(out) = Len(lines)
            /\ \A i \in 1..Len(lines) :
                   IF TagOf(lines[i]) = "S" /\ TypeOf(lines[i]) = X
                   THEN LET r == resolve_entity(WordOf(lines[i]), arg.alias_table, arg.score).out
                            k == IF r.type = "tool" THEN 1
                                 ELSE IF r.type = "malware" THEN 2 ELSE 3
                        IN  out[i] = Tok(WordOf(lines[i]),
                                         Lab("S", IF r.found THEN targets[k]
                                                  ELSE LastCall.cfg.default))
                   ELSE out[i] = lines[i]

\* the single-token span AB of the refined type, with AB an alias of a
\* malware entry, targets T,M,G and default D, came out as S-M
MalwareSpanSeen ==
    /\ Called("software_label_update")
    /\ ~raised
    /\ LastCall.pre1 = Tok(WordAB, Lab("S", X))
    /\ Len(arg.alias_table) = 1
    /\ arg.alias_table[1].type = "malware"
    /\ LastCall.cfg.targets = <<"T", ",", "M", ",", "G">>
    /\ file1 = Tok(WordAB, Lab("S", <<"M">>))

----------------------------------------------------------------------------
(* Properties of the reference data.                                       *)

\* the download fails, there is no cache file, and so the STIX files are
\* missing or hold nothing the table keeps
ReferenceUnavailable ==
    /\ ~arg.env.download
    /\ ~arg.env.cache.exists
    /\ \/ ~arg.env.on_disk
       \/ \A k \in 1..Len(arg.env.stix) :
              arg.env.stix[k].revoked \/ arg.env.stix[k].type \notin object_types

\* C17: reference source unavailable.  When the reference data cannot be
\* obtained, neither createTables nor software_label_update raises, and
\* every single-token span of the refined type gets the default label.
UnavailableReferenceDegrades ==
    (trace # <<>> /\ ReferenceUnavailable) =>
        /\ ~raised
        /\ (Called("software_label_update") /\ LastCall.cfg.labels = X) =>
               LET lines == SplitLines(LastCall.pre1)
                   out == Split(file1, NL)
               IN  /\ Len(out) = Len(lines)
                   /\ \A i \in 1..Len(lines) :
                          (TagOf(lines[i]) = "S" /\ TypeOf(lines[i]) = X) =>
                              out[i] = Tok(WordOf(lines[i]), Lab("S", LastCall.cfg.default))

\* C18: alias-table invariant.  In the table createTables has returned,
\* every key is in lower case and is one of its own aliases, and the keys
\* are distinct.
AliasTableInvariant ==
    (arg.loaded /\ ~raised) =>
        \A k \in 1..Len(arg.alias_table) :
            LET entry == arg.alias_table[k]
            IN  /\ entry.canonical = Lower(entry.canonical)
                /\ \E a \in 1..Len(entry.aliases) : entry.aliases[a] = entry.canonical
                /\ \A j \in 1..Len(arg.alias_table) :
                       arg.alias_table[j].canonical = entry.canonical => j = k

\* a table was built, without a cache, from the tool AB and the malware ab
\* of the same lowercased name and from the malware Cd that has no alias
\* list; the entry ab is the later object's and was extended from the
\* software page, and the entry cd holds its own name
SharedNameTableSeen ==
    /\ arg.loaded
    /\ ~arg.env.cache.exists
    /\ arg.env.stix = <<StixAB, StixAb>>
    /\ Len(arg.alias_table) = 1
    /\ arg.alias_table[1].type = "malware"
    /\ \E a \in 1..Len(arg.alias_table[1].aliases) : arg.alias_table[1].aliases[a] = <<"x", "y">>

----------------------------------------------------------------------------
(* Properties of the consistency correction.                               *)

\* C19: idempotence.  correct_mislabeling applied to its own output returns
\* that output.
CorrectionIdempotent ==
    (Len(trace) = 2 /\ Called("correct_mislabeling")) => file1 = LastCall.pre1

\* an S token, or a B token whose next labeled token is O
Memoizable(lines, i) ==
    /\ IsTokenLine(lines[i])
    /\ IsLabel(LabelOf(lines[i]), {"S", "B"})
    /\ \/ TagOf(lines[i]) = "S"
       \/ /\ TagOf(lines[i]) = "B"
          /\ TokensAfter(lines, i) # {}
          /\ LabelOf(lines[Min(TokensAfter(lines, i))]) = <<"O">>

\* the memoizable occurrences of a surface form
Occurrences(lines, word) ==
    {i \in 1..Len(lines) : Memoizable(lines, i) /\ WordOf(lines[i]) = word}

\* what the claim says line i becomes
Corrected(lines, i) ==
    IF /\ IsTokenLine(lines[i])
       /\ Occurrences(lines, WordOf(lines[i])) # {}
       /\ Memoizable(lines, i) \/ LabelOf(lines[i]) = <<"O">>
    THEN Tok(WordOf(lines[i]),
             LabelOf(lines[Min(Occurrences(lines, WordOf(lines[i])))]))
    ELSE lines[i]

\* C20: semantics.  Every S token, every B token whose next labeled token
\* is O and every O token takes the label of the first S or such B
\* occurrence of its surface form, and every other line is unchanged.
CorrectionSemantics ==
    Called("correct_mislabeling") =>
        LET lines == SplitLines(LastCall.pre1)
            out == Split(file1, NL)
        IN  /\ Len(out) = Len(lines)
            /\ \A i \in 1..Len(lines) : out[i] = Corrected(lines, i)

----------------------------------------------------------------------------
(* Properties of the OS discovery.                                         *)

WindowsServerKnown == Lower(Join(<<Windows, Server>>, SP)) \in arg.lookup

\* what the example gives for the second line
ServerLine == Tok(Server, Lab(IF arg.tagging = "BIO" THEN "I" ELSE "E", OS))

PhraseUpTo(lines, k) == Lower(Join([j \in 1..k |-> WordOf(lines[j])], SP))

\* the longest run from line 1 of O tokens whose every concatenation the
\* lookup recognizes
GreedyLength(lines, lookup) ==
    Max({n \in 1..Len(lines) :
            \A k \in 2..n : LabelOf(lines[k]) = <<"O">> /\ PhraseUpTo(lines, k) \in lookup})

\* the tags of a span of n tokens
SpanTag(k, n, tagging) ==
    IF tagging = "BIO" THEN (IF k = 1 THEN "B" ELSE "I")
    ELSE IF n = 1 THEN "S" ELSE IF k = 1 THEN "B" ELSE IF k = n THEN "E" ELSE "I"

\* C26: greedy OS extension.  For a text of token lines that starts with
\* an O-labeled family word, discover_os does not raise whatever the lookup
\* holds, and the span it emits is the seed with the longest run of the
\* following O tokens whose every concatenation the lookup recognizes,
\* tagged B,I,...,I under BIO and S or B,I,...,E under BIOES.
GreedyOsExtension ==
    (/\ Called("discover_os")
     /\ LET lines == SplitLines(LastCall.pre1)
        IN  /\ \A i \in 1..Len(lines) : IsTokenLine(lines[i])
            /\ LabelOf(lines[1]) = <<"O">>
            /\ Lower(WordOf(lines[1])) \in startWith) =>
        /\ ~raised
        /\ LET lines == SplitLines(LastCall.pre1)
               out == Split(file1, NL)
               n == GreedyLength(lines, arg.lookup)
           IN  /\ n \in 1..5
               /\ Len(out) >= n
               /\ \A k \in 1..n :
                      out[k] = Tok(WordOf(lines[k]),
                                   Lab(SpanTag(k, n, arg.tagging), LastCall.cfg.new_label))

\* the token lines of a text
TokenLines(lines) == SelectSeq(lines, IsTokenLine)

\* C28: discover_os preserves the token sequence.  The words of the labeled
\* lines of the output are those of the input, in order, and a line whose
\* label is not O is unchanged.
OsPreservesTokens ==
    (Called("discover_os") /\ ~raised) =>
        LET tin == TokenLines(SplitLines(LastCall.pre1))
            tout == TokenLines(Split(file1, NL))
        IN  /\ Len(tout) = Len(tin)
            /\ \A k \in 1..Len(tin) :
                   /\ WordOf(tout[k]) = WordOf(tin[k])
                   /\ LabelOf(tin[k]) # <<"O">> => tout[k] = tin[k]

----------------------------------------------------------------------------
(* Properties of the content passes on spans.                              *)

\* C23: no new tagging violations from classify_exploit.  For a legally
\* tagged input the output is legally tagged, line by line with the word
\* and the tag letter of the input.
ExploitKeepsLegalTagging ==
    (/\ Called("classify_exploit")
     /\ ~raised
     /\ LegallyTagged(Strip(LastCall.pre1), {"B", "I", "E", "S"})) =>
        /\ LegallyTagged(file1, {"B", "I", "E", "S"})
        /\ LET lines == SplitLines(LastCall.pre1)
               out == Split(file1, NL)
           IN  \A i \in 1..Len(lines) :
                   IsTokenLine(lines[i]) =>
                       /\ i <= Len(out)
                       /\ IsTokenLine(out[i])
                       /\ WordOf(out[i]) = WordOf(lines[i])
                       /\ TagOf(out[i]) = TagOf(lines[i])

----------------------------------------------------------------------------
(* Properties of the span walk.                                            *)

RefinementCalled == Called("software_label_update") \/ Called("group_label_update")

\* the text is one span of the type X: a B token, then I tokens, with
\* blank or one-field lines between them
OneSpan(lines) ==
    /\ IsTokenLine(lines[1]) /\ TagOf(lines[1]) = "B" /\ TypeOf(lines[1]) = X
    /\ \A i \in 2..Len(lines) :
           \/ FirstIndex(lines[i], SP) = 0
           \/ IsTokenLine(lines[i]) /\ TagOf(lines[i]) = "I" /\ TypeOf(lines[i]) = X

WordsOf(lines) == [k \in 1..Len(lines) |-> WordOf(lines[k])]

\* C24: span extraction.  For a text that is one span of the refined type
\* the pass collects the tokens of the span, each once and in document
\* order, skipping the blank and one-field lines between them: the labeled
\* lines of the output carry the words of the span's tokens, once each.
SpanTokensOnce ==
    (RefinementCalled /\ ~raised /\ LastCall.cfg.labels = X
        /\ OneSpan(SplitLines(LastCall.pre1))) =>
        WordsOf(TokenLines(Split(file1, NL))) = WordsOf(TokenLines(SplitLines(LastCall.pre1)))

\* C25: scheme-inconsistent input.  An I token of the refined type at the
\* start of the text, which no B or I precedes, is treated as a span
\* start: the pass does not fail and the token is in the output with its
\* word.
OrphanStartsSpan ==
    (/\ RefinementCalled
     /\ LastCall.cfg.labels = X
     /\ LET first == SplitLines(LastCall.pre1)[1]
        IN  IsTokenLine(first) /\ TagOf(first) = "I" /\ TypeOf(first) = X) =>
        /\ ~raised
        /\ LET out == Split(file1, NL)
           IN  /\ IsTokenLine(out[1])
               /\ WordOf(out[1]) = WordOf(SplitLines(LastCall.pre1)[1])

\* C27: V2 group classification with a single target label.  With one
\* target label, a default label and an alias table that is not empty,
\* group_label_update does not raise and
\* every single-token span of the selected type gets the target label or
\* the default label.
SingleGroupTarget ==
    (/\ Called("group_label_update")
     /\ LastCall.cfg.labels = X
     /\ Len(Split(LastCall.cfg.targets, ",")) = 1
     /\ arg.alias_table # <<>>
     /\ SingleTokenSpansOnly(LastCall.pre1)) =>
        /\ ~raised
        /\ LET lines == SplitLines(LastCall.pre1)
               out == Split(file1, NL)
           IN  /\ Len(out) = Len(lines)
               /\ \A i \in 1..Len(lines) :
                      IF TagOf(lines[i]) = "S" /\ TypeOf(lines[i]) = X
                      THEN \E type \in {LastCall.cfg.targets, LastCall.cfg.default} :
                               out[i] = Tok(WordOf(lines[i]), Lab("S", type))
                      ELSE out[i] = lines[i]

\* the next labeled token after line i, if any, has neither tag I nor E
NoContinuation(lines, i) ==
    \/ TokensAfter(lines, i) = {}
    \/ TagOf(lines[Min(TokensAfter(lines, i))]) \notin {"I", "E"}

\* line i is a span of one token of the type: an S, or a B nothing continues
SingleTokenSpan(lines, i, type) ==
    /\ IsTokenLine(lines[i])
    /\ TypeOf(lines[i]) = type
    /\ \/ TagOf(lines[i]) = "S"
       \/ TagOf(lines[i]) = "B" /\ NoContinuation(lines, i)

\* C29: classify_file preserves every token.  The call does not raise and
\* emits one line per input line, in order: a single-token span of the
\* refined type keeps its word and tag and gets the type sampleFile
\* chooses, every other line, the B of a longer span included, is unchanged.
ClassifyPreservesTokens ==
    (Called("classify_file") /\ LastCall.cfg.label = X) =>
        /\ ~raised
        /\ LET lines == SplitLines(LastCall.pre1)
               out == Split(file1, NL)
           IN  /\ Len(out) = Len(lines)
               /\ \A i \in 1..Len(lines) :
                      IF SingleTokenSpan(lines, i, X)
                      THEN out[i] = Tok(WordOf(lines[i]),
                                        Lab(TagOf(lines[i]),
                                            sampleFile(WordOf(lines[i]), LastCall.cfg.default)))
                      ELSE out[i] = lines[i]

\* the calls of main in the order of its statements
CallsOfMain ==
    << "convert", "createTables", "oneTo1Mappings", "manyTo1Mappings",
       "oneToManyMappings", "discoveryIOCs", "discover_encry_algorithms",
       "discover_operating_systems", "merge_datasets" >>

RankOfCall(op) == CHOOSE n \in 1..Len(CallsOfMain) : CallsOfMain[n] = op

\* the four passes of oneToManyMappings
PassesOfOneToMany ==
    {"classify_file", "classify_exploit", "software_label_update", "group_label_update"}

HasCall(op) == \E k \in 1..Len(trace) : trace[k].op = op

\* C22 as the specification states it: remapping, content passes,
\* consistency correction, conversion to the output scheme, merge.  When
\* the merge is executed, a consistency correction and after it a
\* conversion have been executed, both after every remapping and content
\* stage of the run.
MergeAfterCorrectionAndConversion ==
    Called("merge_datasets") =>
        \E c, v \in 1..Len(trace) :
            /\ trace[c].op = "fixingMislabeledIssue"
            /\ trace[v].op = "convert"
            /\ c < v
            /\ \A k \in 1..Len(trace) :
                   trace[k].op \in {"oneTo1Mappings", "manyTo1Mappings", "oneToManyMappings",
                                    "discoveryIOCs", "discover_encry_algorithms",
                                    "discover_operating_systems"} => k < c

\* C22, amended: pipeline ordering.  In every run of main the calls occur
\* in the order conversion to the requested scheme, createTables,
\* one-to-one, many-to-one, one-to-many, IoC, encryption and OS discovery,
\* merge, each at most once; the passes of oneToManyMappings run inside its
\* call; the merged file is written by the last call only, and no
\* consistency correction is executed.
StagesInOrderOfMain ==
    /\ \A i, j \in 1..Len(trace) :
           i < j => RankOfCall(trace[i].op) < RankOfCall(trace[j].op)
    /\ pc \in PassesOfOneToMany => Called("oneToManyMappings")
    /\ pc # "convert" => trace[1].op = "convert"
    /\ merged # Unset => pc = "done" /\ Called("merge_datasets")
    /\ ~HasCall("fixingMislabeledIssue")

\* a run in which the operator enabled every stage, the merge included
EveryStageSeen ==
    /\ pc = "done" /\ merged # Unset
    /\ Len(trace) = Len(CallsOfMain)

\* the labeled lines of a file carry the tags B, I and O only
OnlyBioTags(text) ==
    \A k \in 1..Len(Split(text, NL)) :
        IsTokenLine(Split(text, NL)[k]) => TagOf(Split(text, NL)[k]) \in {"B", "I", "O"}

============================================================================
